---- MODULE Spec2Model ----
(***************************************************************************)
(* Durable-Task-Scheduler python samples: the orchestrator functions of    *)
(* the samples, the activities they call, and the replay engine that runs  *)
(* them (history log, replay executor, dispatcher).                        *)
(*                                                                         *)
(* Python values: a str built by an f-string is a sequence of its pieces,  *)
(* a dict is a record, a list is a sequence.                               *)
(***************************************************************************)
EXTENDS Integers, Sequences, FiniteSets, TLC

VARIABLES
    orch,           \* registered name of the instance's orchestrator function
    version,        \* version tag given to schedule (None when not given)
    workerVersion,  \* version label of the code the worker currently runs
    history,        \* the instance's history log
    status,         \* Running | Completed | Failed
    output,         \* output of a Completed instance, error of a Failed one, <<>> before
    pending,        \* sequence numbers of dispatched, not yet completed activities
    dispatched,     \* every work item handed to the worker pool, in order
    queued,         \* the instance is queued for a replay pass
    now,            \* wall clock
    generation,     \* continue-as-new generations started so far
    lastPass,       \* what the last replay pass requested and found
    entityState,    \* entity key -> state blob: <<>> when none was set, else <<value>>
    lastApplied,    \* entity key -> sequence number of the last operation applied
    opQueue,        \* entity key -> every operation sent to the key, in sequence order
    running,        \* worker -> the entity operation it is executing, or Idle
    runKey,         \* client run -> the entity key it was started with
    runPc,          \* client run -> how far main has got
    workflow,       \* counter_workflow instance -> what it has sent and received
    lastCommit,     \* whether the last commit applied its operation, or why not
    lastResult,     \* what the entity function returned for the signal applied last
    raised,         \* every raise_event call so far and how often it was delivered
    workItems,      \* correlation id -> the work item, how often it was handed out and run
    inbox,          \* <<correlation id, run>> -> completion message not received yet
    instances,      \* instance id -> the instance, where several instances run
    deployedLogic,  \* the function the worker has registered under the instance's name
    research,       \* the research loop: its iteration counters and where it stands
    decided,        \* the last call of decide_continuation_activity and its result
    follow_up,      \* the last call of identify_research_gaps_activity and its result
    llm             \* the module state of llm.py and the threads inside _get_client

instanceVars == <<orch, version, workerVersion, history, status, output, pending,
                  dispatched, queued, now, generation, lastPass>>
entityVars == <<entityState, lastApplied, opQueue, running, runKey, runPc, workflow,
                lastCommit, lastResult>>
eventVars == <<raised>>
dispatcherVars == <<workItems, inbox, instances, deployedLogic>>
researchVars == <<research, decided, follow_up, llm>>
vars == <<instanceVars, entityVars, eventVars, dispatcherVars, researchVars>>

(* ------------------------------ bounds --------------------------------- *)
MaxTime == 2
MaxItems == 2
MaxIter == 3

None == "None"

Min(a, b) == IF a < b THEN a ELSE b

\* dict.get(key, default)
Get(d, k, default) == IF k \in DOMAIN d THEN d[k] ELSE default

\* python values: the type's name and the text str() gives for a scalar, the
\* elements for a list, the fields for a dict
PyStr(text) == [t |-> "str", v |-> text]
PyBool(b) == [t |-> "bool", v |-> IF b THEN "True" ELSE "False"]
PyInt(digits) == [t |-> "int", v |-> digits]
PyNone == [t |-> "NoneType", v |-> "None"]
PyList(items) == [t |-> "list", v |-> items]
PyDict(fields) == [t |-> "dict", v |-> fields]

\* str(q) of a scalar
PyToStr(q) == IF q.t = "str" THEN q ELSE PyStr(q.v)

\* bool(q): what an if or a conditional expression makes of a value
PyTruthy(q) ==
    CASE q.t = "bool" -> q.v = "True"
      [] q.t = "NoneType" -> FALSE
      [] q.t = "int" -> q.v # "0"
      [] q.t = "str" -> q.v # ""
      [] q.t = "list" -> q.v # <<>>
      [] q.t = "dict" -> DOMAIN q.v # {}

\* what an orchestrator function asks of the engine when it is run
Act(name, input) == [name |-> name, input |-> input]
CallOne(a) == [t |-> "call", mode |-> "one", actions |-> <<a>>]
CallAll(as) == [t |-> "call", mode |-> "all", actions |-> as]
Return(v) == [t |-> "return", val |-> v]
Raise(e) == [t |-> "raise", val |-> e]
ContinueAsNew(v) == [t |-> "continue_as_new", val |-> v]
WaitEvent(name) == [t |-> "wait", name |-> name]

\* outcome of an activity function, and the value a yield evaluates to
Ok(v) == [ok |-> TRUE, val |-> v]
Err(e) == [ok |-> FALSE, val |-> e]

\* index of the first failed yield among the first n, 0 when none failed
FirstFailure(rs, n) ==
    LET bad == {i \in 1..Min(n, Len(rs)) : ~rs[i].ok}
    IN IF bad = {} THEN 0 ELSE CHOOSE i \in bad : \A j \in bad : i <= j

(* ------------------------- function chaining --------------------------- *)
Chaining == "function_chaining_orchestrator"

\* rs: the values of the yields already resolved, in order
function_chaining_orchestrator_RandomSkip(ctx, rs) ==
    LET name == ctx.input
        n == Len(rs)
        f == FirstFailure(rs, 3)
    IN IF f # 0 THEN Raise(rs[f].val)
       ELSE IF n = 0 THEN CallOne(Act("say_hello", name))
       ELSE IF n = 1 THEN CallOne(Act("process_greeting", rs[1].val))
       ELSE IF n = 2 THEN
           IF ctx.uuid4 = "uuid-a"
           THEN CallOne(Act("finalize_response", rs[2].val))
           ELSE Return(rs[2].val)
       ELSE Return(rs[3].val)
function_chaining_orchestrator_Swallows(ctx, rs) ==
    LET name == ctx.input
        n == Len(rs)
    IN IF n = 0 THEN CallOne(Act("say_hello", name))
       ELSE IF n = 1 THEN CallOne(Act("process_greeting", rs[1].val))
       ELSE IF n = 2 THEN CallOne(Act("finalize_response", rs[2].val))
       ELSE Return(rs[3].val)
function_chaining_orchestrator(ctx, rs) ==
    LET name == ctx.input
        n == Len(rs)
        f == FirstFailure(rs, 3)
    IN IF f # 0 THEN Raise(rs[f].val)
       ELSE IF n = 0 THEN CallOne(Act("say_hello", name))
       ELSE IF n = 1 THEN CallOne(Act("process_greeting", rs[1].val))
       ELSE IF n = 2 THEN CallOne(Act("finalize_response", rs[2].val))
       ELSE Return(rs[3].val)

chaining_say_hello(name) == Ok(<<"Hello ">> \o name \o <<"!">>)
chaining_process_greeting(greeting) == Ok(greeting \o <<" How are you today?">>)
chaining_finalize_response(response) == Ok(response \o <<" I hope you're doing well!">>)

(* ------------------------------- saga ---------------------------------- *)
Saga == "travel_booking_saga"

\* str.lower() on the destinations of the model
Lower(s) == CASE s = "Nowhere" -> "nowhere"
              [] s = "NOWHERE" -> "nowhere"
              [] s = "Paris" -> "paris"
              [] s = "Tokyo" -> "tokyo"
              [] OTHER -> s

book_flight(input, clock) ==
    IF Lower(input.destination) = "nowhere"
    THEN Err(<<"No flights available to ", input.destination>>)
    ELSE Ok([confirmation |-> <<"FL-", clock>>, service |-> "flight",
             destination |-> input.destination])

book_hotel(input, clock) ==
    IF Get(input, "nights", 3) <= 0
    THEN Err(<<"Invalid hotel booking: 0 nights">>)
    ELSE Ok([confirmation |-> <<"HT-", clock>>, service |-> "hotel",
             destination |-> input.destination])

book_car(input, clock) ==
    IF Get(input, "simulate_car_failure", FALSE)
    THEN Err(<<"No rental cars available in ", input.destination>>)
    ELSE Ok([confirmation |-> <<"CR-", clock>>, service |-> "car",
             destination |-> input.destination])

cancel_flight(input) == Ok(<<"Flight ">> \o input.confirmation \o <<" cancelled">>)
cancel_hotel(input) == Ok(<<"Hotel ">> \o input.confirmation \o <<" cancelled">>)
cancel_car(input) == Ok(<<"Car ">> \o input.confirmation \o <<" cancelled">>)

\* the cancel activity pushed with the k-th booking (worker.py 98, 103, 108)
CancelOf(k) == <<"cancel_flight", "cancel_hotel", "cancel_car">>[k]

\* the list built by the except branch: one entry per resolved cancel yield
Compensations_OnlySucceeded(rs, f) ==
    LET all == [j \in 1..(Len(rs) - f) |-> rs[f + j]]
        IsOk(r) == r.ok
        kept == SelectSeq(all, IsOk)
    IN [j \in DOMAIN kept |-> kept[j].val]
Compensations(rs, f) ==
    [j \in 1..(Len(rs) - f) |->
        IF rs[f + j].ok THEN rs[f + j].val
        ELSE <<"Compensation failed: ">> \o rs[f + j].val]

\* "for booking, cancel_activity in reversed(completed_bookings)": the pair the
\* loop handles once `done` compensations have been yielded
NextCompensation_Forward(completed_bookings, done) == completed_bookings[done + 1]
NextCompensation(completed_bookings, done) ==
    completed_bookings[Len(completed_bookings) - done]

\* the result returned by the except branch
SagaFailure_Success(error, compensations, destination) ==
    [status |-> "success", error |-> error, compensations |-> compensations,
     destination |-> destination]
SagaFailure(error, compensations, destination) ==
    [status |-> "failed", error |-> error, compensations |-> compensations,
     destination |-> destination]

travel_booking_saga(ctx, rs) ==
    LET input == ctx.input
        destination == input.destination
        nights == Get(input, "nights", 3)
        simulate_car_failure == Get(input, "simulate_car_failure", FALSE)
        n == Len(rs)
        f == FirstFailure(rs, 3)          \* the booking yield that raised
        completed_bookings == [k \in 1..(f - 1) |-> <<rs[k].val, CancelOf(k)>>]
        done == n - f                      \* cancel yields already resolved
    IN IF f = 0 THEN
          IF n = 0 THEN CallOne(Act("book_flight", [destination |-> destination]))
          ELSE IF n = 1 THEN
              CallOne(Act("book_hotel", [destination |-> destination, nights |-> nights]))
          ELSE IF n = 2 THEN
              CallOne(Act("book_car", [destination |-> destination,
                                       simulate_car_failure |-> simulate_car_failure]))
          ELSE Return([status |-> "success",
                       bookings |-> [flight |-> rs[1].val.confirmation,
                                     hotel |-> rs[2].val.confirmation,
                                     car |-> rs[3].val.confirmation],
                       destination |-> destination])
       ELSE
          IF done < Len(completed_bookings) THEN
              LET b == NextCompensation(completed_bookings, done)
              IN CallOne(Act(b[2], b[1]))
          ELSE Return(SagaFailure(rs[f].val, Compensations(rs, f), destination))

(* --------------------------- fan-out/fan-in ---------------------------- *)
FanOut == "fan_out_fan_in_orchestrator"

RECURSIVE SumOf(_, _)
\* sum(r[field] for r in results)
SumOf(results, field) ==
    IF Len(results) = 0 THEN 0
    ELSE results[1][field] + SumOf(Tail(results), field)

\* the parallel_tasks list: one process_work_item call per item, in order
FanOutTasks_Reversed(work_items) ==
    [i \in 1..Len(work_items) |->
        Act("process_work_item", work_items[Len(work_items) + 1 - i])]
FanOutTasks(work_items) ==
    [i \in 1..Len(work_items) |-> Act("process_work_item", work_items[i])]

fan_out_fan_in_orchestrator_Sequential(ctx, rs) ==
    LET work_items == ctx.input
        n == Len(rs)
        f == FirstFailure(rs, Len(work_items) + 1)
    IN IF f # 0 THEN Raise(rs[f].val)
       ELSE IF n < Len(work_items) THEN
           CallOne(Act("process_work_item", work_items[n + 1]))
       ELSE IF n = Len(work_items) THEN
           CallOne(Act("aggregate_results", [i \in 1..n |-> rs[i].val]))
       ELSE Return(rs[n].val)
fan_out_fan_in_orchestrator_Ignores(ctx, rs) ==
    LET work_items == ctx.input
        n == Len(rs)
    IN IF n = 0 THEN CallAll(FanOutTasks(work_items))
       ELSE IF n = 1 THEN CallOne(Act("aggregate_results",
                                      IF rs[1].ok THEN rs[1].val ELSE <<>>))
       ELSE IF rs[2].ok THEN Return(rs[2].val) ELSE Raise(rs[2].val)
fan_out_fan_in_orchestrator(ctx, rs) ==
    LET work_items == ctx.input
        n == Len(rs)
        f == FirstFailure(rs, 2)
    IN IF f # 0 THEN Raise(rs[f].val)
       ELSE IF n = 0 THEN CallAll(FanOutTasks(work_items))
       ELSE IF n = 1 THEN CallOne(Act("aggregate_results", rs[1].val))
       ELSE Return(rs[2].val)

\* rnd: the draw of random.randint (processing_time, a float, is left out)
process_work_item(workItem, rnd) ==
    Ok([item |-> workItem, processed |-> TRUE,
        result |-> <<"Processed_", workItem>>, value |-> rnd])

\* total_value / len(results) raises ZeroDivisionError on an empty list
aggregate_results(results) ==
    IF Len(results) = 0 THEN Err(<<"division by zero">>)
    ELSE Ok([total_items_processed |-> Len(results),
             total_value |-> SumOf(results, "value"),
             processed_items |-> [i \in 1..Len(results) |-> results[i].result],
             success |-> TRUE])

(* ---------------------------- large payload ---------------------------- *)
LargePayload == "large_payload_orchestrator"
DEFAULT_PAYLOAD_SIZE_KB == 100
DEFAULT_ACTIVITY_COUNT == 5

\* tasks: process_large_data for i in range(activity_count); task i is the (i+1)-th
LargePayloadTasks(activity_count, payload_size_kb) ==
    [k \in 1..activity_count |->
        Act("process_large_data", [task_id |-> k - 1, payload_size_kb |-> payload_size_kb])]

\* the input is None ("or {}") when it is the empty record
large_payload_orchestrator(ctx, rs) ==
    LET config == ctx.input
        activity_count == Get(config, "activity_count", DEFAULT_ACTIVITY_COUNT)
        payload_size_kb == Get(config, "payload_size_kb", DEFAULT_PAYLOAD_SIZE_KB)
        n == Len(rs)
    IN IF n = 0 THEN CallAll(LargePayloadTasks(activity_count, payload_size_kb))
       ELSE IF ~rs[1].ok THEN Raise(rs[1].val)
       ELSE LET results == rs[1].val
            IN Return([items_processed |-> Len(results),
                       total_size_kb |-> SumOf(results, "size_kb"),
                       individual_sizes |-> [i \in 1..Len(results) |-> results[i].size_kb]])

process_large_data(input) ==
    Ok([task_id |-> input.task_id, size_kb |-> input.payload_size_kb,
        payload |-> <<"payload", input.payload_size_kb>>])

(* ------------------------ eternal orchestration ------------------------ *)
Eternal == "eternal_orchestrator"

\* {**d, k: v}
With(d, k, v) == [x \in DOMAIN d \cup {k} |-> IF x = k THEN v ELSE d[x]]

eternal_orchestrator_Loop(ctx, rs) ==
    LET config == ctx.input
        max_iterations == Get(config, "max_iterations", 5)
        n == Len(rs)
        current_iteration == Get(config, "current_iteration", 1) + (n \div 2)
        f == FirstFailure(rs, n)
    IN IF f # 0 THEN Raise(rs[f].val)
       ELSE IF n % 2 = 0 THEN
           CallOne(Act("execute_periodic_task", With(config, "iteration", current_iteration)))
       ELSE IF current_iteration >= max_iterations THEN
           Return([status |-> "completed", total_iterations |-> current_iteration,
                   final_result |-> rs[n].val])
       ELSE CallOne(Act("wait_for_interval",
                        [interval_minutes |-> Get(config, "interval_minutes", 2)]))
eternal_orchestrator_WaitsFirst(ctx, rs) ==
    LET config == ctx.input
        current_iteration == Get(config, "current_iteration", 1)
        max_iterations == Get(config, "max_iterations", 5)
        n == Len(rs)
        f == FirstFailure(rs, 2)
    IN IF f # 0 THEN Raise(rs[f].val)
       ELSE IF n = 0 THEN
           CallOne(Act("execute_periodic_task", With(config, "iteration", current_iteration)))
       ELSE IF n = 1 THEN
           CallOne(Act("wait_for_interval",
                       [interval_minutes |-> Get(config, "interval_minutes", 2)]))
       ELSE IF current_iteration >= max_iterations THEN
           Return([status |-> "completed", total_iterations |-> current_iteration,
                   final_result |-> rs[1].val])
       ELSE ContinueAsNew(With(config, "current_iteration", current_iteration + 1))
eternal_orchestrator(ctx, rs) ==
    LET config == ctx.input
        current_iteration == Get(config, "current_iteration", 1)
        max_iterations == Get(config, "max_iterations", 5)
        n == Len(rs)
        f == FirstFailure(rs, 2)
    IN IF f # 0 THEN Raise(rs[f].val)
       ELSE IF n = 0 THEN
           CallOne(Act("execute_periodic_task", With(config, "iteration", current_iteration)))
       ELSE IF current_iteration >= max_iterations THEN
           Return([status |-> "completed", total_iterations |-> current_iteration,
                   final_result |-> rs[1].val])
       ELSE IF n = 1 THEN
           CallOne(Act("wait_for_interval",
                       [interval_minutes |-> Get(config, "interval_minutes", 2)]))
       ELSE ContinueAsNew(With(config, "current_iteration", current_iteration + 1))

\* success: whether the health check answered 200 (always TRUE for other task types)
execute_periodic_task(taskConfig, clock, success) ==
    Ok([iteration |-> taskConfig.iteration, task_type |-> taskConfig.task_type,
        success |-> IF taskConfig.task_type = "health_check" THEN success ELSE TRUE,
        executed_at |-> clock])

eternal_wait_for_interval(waitConfig, clock) ==
    Ok([requested_wait_seconds |-> Min(Get(waitConfig, "interval_minutes", 2) * 60, 120),
        completed_at |-> clock])

(* ----------------------------- versioning ------------------------------ *)
Versioned == "versioned_orchestration"

\* packaging.version.parse on the version strings of the model: the release
\* segments, or the empty tuple when InvalidVersion is raised
ParseVersion(v) ==
    CASE v = "1.0.0" -> <<1, 0, 0>>
      [] v = "2.0.0" -> <<2, 0, 0>>
      [] v = "3.0.0" -> <<3, 0, 0>>
      [] v = "1.9" -> <<1, 9, 0>>
      [] v = "2.0" -> <<2, 0, 0>>
      [] v = "10.0.0" -> <<10, 0, 0>>
      [] OTHER -> <<>>

\* order of two release tuples of length 3
ReleaseLess(a, b) ==
    \/ a[1] < b[1]
    \/ a[1] = b[1] /\ a[2] < b[2]
    \/ a[1] = b[1] /\ a[2] = b[2] /\ a[3] < b[3]

\* Python's str order between an unparsable tag v1 of the model and v2 in
\* {"2.0.0", "3.0.0"}: decided by the first character
StrLess(v1, v2) ==
    CASE v1 = "beta" -> FALSE
      [] v1 = "" -> TRUE
      [] OTHER -> FALSE

compare_version_Swapped(v1, v2) ==
    IF v1 = None THEN -1
    ELSE IF ParseVersion(v1) # <<>> /\ ParseVersion(v2) # <<>> THEN
        IF ReleaseLess(ParseVersion(v1), ParseVersion(v2)) THEN 1
        ELSE IF ReleaseLess(ParseVersion(v2), ParseVersion(v1)) THEN -1
        ELSE 0
    ELSE IF StrLess(v1, v2) THEN -1
    ELSE IF v1 # v2 THEN 1
    ELSE 0
compare_version(v1, v2) ==
    IF v1 = None THEN -1
    ELSE IF ParseVersion(v1) # <<>> /\ ParseVersion(v2) # <<>> THEN
        IF ReleaseLess(ParseVersion(v1), ParseVersion(v2)) THEN -1
        ELSE IF ReleaseLess(ParseVersion(v2), ParseVersion(v1)) THEN 1
        ELSE 0
    ELSE IF StrLess(v1, v2) THEN -1
    ELSE IF v1 # v2 THEN 1
    ELSE 0

\* the activity calls the function makes for a version tag, in order
VersionedSteps_Exclusive(orch_version, name) ==
    <<Act("say_hello", name)>>
    \o (IF compare_version(orch_version, "2.0.0") >= 0
           /\ compare_version(orch_version, "3.0.0") < 0
        THEN <<Act("say_goodbye", name)>> ELSE <<>>)
    \o (IF compare_version(orch_version, "3.0.0") >= 0
        THEN <<Act("send_notification", <<"Completed greeting workflow for ">> \o name)>>
        ELSE <<>>)
VersionedSteps(orch_version, name) ==
    <<Act("say_hello", name)>>
    \o (IF compare_version(orch_version, "2.0.0") >= 0
        THEN <<Act("say_goodbye", name)>> ELSE <<>>)
    \o (IF compare_version(orch_version, "3.0.0") >= 0
        THEN <<Act("send_notification", <<"Completed greeting workflow for ">> \o name)>>
        ELSE <<>>)

\* the dict the function returns
VersionedResult_Latest(orch_version, results) ==
    [version |-> "3.0.0", results |-> results]
VersionedResult(orch_version, results) ==
    [version |-> orch_version, results |-> results]

versioned_orchestration(ctx, rs) ==
    LET name == ctx.input
        orch_version == ctx.version
        steps == VersionedSteps(orch_version, name)
        n == Len(rs)
        f == FirstFailure(rs, Len(steps))
    IN IF f # 0 THEN Raise(rs[f].val)
       ELSE IF n < Len(steps) THEN CallOne(steps[n + 1])
       ELSE Return(VersionedResult(orch_version, [i \in 1..n |-> rs[i].val]))

versioned_say_hello(name) == Ok(<<"Hello, ">> \o name \o <<"!">>)
say_goodbye(name) == Ok(<<"Goodbye, ">> \o name \o <<"!">>)
send_notification(message) == Ok(<<"Notification sent: ">> \o message)

(* --------------------------- async HTTP API ---------------------------- *)
AsyncHttp == "async_http_api_orchestrator"

\* ctx.uuid4: the value uuid.uuid4() returns in this run of the function
async_http_api_orchestrator(ctx, rs) ==
    LET operation_data == ctx.input
        operation_id == ctx.uuid4
        operation_request ==
            With(With(operation_data, "operation_id", operation_id),
                 "started_at", ctx.started)
    IN IF Len(rs) = 0 THEN CallOne(Act("long_running_operation", operation_request))
       ELSE IF ~rs[1].ok THEN Raise(rs[1].val)
       ELSE Return(rs[1].val)

long_running_operation(operationRequest, clock, rnd) ==
    Ok([operation_id |-> operationRequest.operation_id,
        operation_type |-> operationRequest.operation_type,
        status |-> "completed",
        started_at |-> operationRequest.started_at,
        completed_at |-> clock,
        input_data |-> operationRequest.data,
        output_data |-> [processed |-> TRUE, result_id |-> rnd]])

(* ----------------------------- monitoring ------------------------------ *)
Monitoring == "monitoring_job_orchestrator"

\* the yields alternate check_job_status (odd) and wait_for_interval (even);
\* rs[i].t is context.current_utc_datetime once yield i has resolved
MonitorExit(rs, i, expiration_time) ==
    rs[i].ok /\ (rs[i].val.status = "Completed" \/ rs[i].t >= expiration_time)

monitoring_job_orchestrator_TimeoutFirst(ctx, rs) ==
    LET job_data == ctx.input
        job_id == Get(job_data, "job_id", None)
        polling_interval == Get(job_data, "polling_interval_seconds", 5)
        timeout == Get(job_data, "timeout_seconds", 30)
        start_time == ctx.started
        expiration_time == start_time + timeout
        n == Len(rs)
        f == FirstFailure(rs, n)
    IN IF f # 0 THEN Raise(rs[f].val)
       ELSE IF n = 0 THEN
           CallOne(Act("check_job_status", [job_id |-> job_id, check_count |-> 0]))
       ELSE IF n % 2 = 1 THEN
           LET job_status == rs[n].val
           IN IF MonitorExit(rs, n, expiration_time) THEN
                  Return([job_id |-> job_id,
                          final_status |-> IF rs[n].t >= expiration_time
                                           THEN "Timeout" ELSE "Completed",
                          checks_performed |-> job_status.check_count,
                          monitoring_duration_seconds |-> rs[n].t - start_time])
              ELSE CallOne(Act("wait_for_interval", polling_interval))
       ELSE CallOne(Act("check_job_status",
                        [job_id |-> job_id,
                         check_count |-> Get(rs[n - 1].val, "check_count", 0)]))

monitoring_job_orchestrator(ctx, rs) ==
    LET job_data == ctx.input
        job_id == Get(job_data, "job_id", None)
        polling_interval == Get(job_data, "polling_interval_seconds", 5)
        timeout == Get(job_data, "timeout_seconds", 30)
        start_time == ctx.started
        expiration_time == start_time + timeout
        n == Len(rs)
        f == FirstFailure(rs, n)
    IN IF f # 0 THEN Raise(rs[f].val)
       ELSE IF n = 0 THEN
           CallOne(Act("check_job_status", [job_id |-> job_id, check_count |-> 0]))
       ELSE IF n % 2 = 1 THEN
           LET job_status == rs[n].val
           IN IF MonitorExit(rs, n, expiration_time) THEN
                  Return([job_id |-> job_id,
                          final_status |-> IF job_status.status = "Completed"
                                           THEN "Completed" ELSE "Timeout",
                          checks_performed |-> job_status.check_count,
                          monitoring_duration_seconds |-> rs[n].t - start_time])
              ELSE CallOne(Act("wait_for_interval", polling_interval))
       ELSE CallOne(Act("check_job_status",
                        [job_id |-> job_id,
                         check_count |-> Get(rs[n - 1].val, "check_count", 0)]))

check_job_status_CountsTwice(jobData, clock) ==
    LET check_count == Get(jobData, "check_count", 0)
    IN Ok([job_id |-> Get(jobData, "job_id", "unknown"),
           status |-> IF check_count >= 3 THEN "Completed" ELSE "Running",
           check_count |-> check_count + 2,
           last_check_time |-> clock])
check_job_status(jobData, clock) ==
    LET check_count == Get(jobData, "check_count", 0)
    IN Ok([job_id |-> Get(jobData, "job_id", "unknown"),
           status |-> IF check_count >= 3 THEN "Completed" ELSE "Running",
           check_count |-> check_count + 1,
           last_check_time |-> clock])

monitoring_wait_for_interval(intervalSeconds) ==
    Ok(<<"Waited for ", intervalSeconds, " seconds">>)

(* -------------------------- human interaction -------------------------- *)
HumanInteraction == "human_interaction_orchestrator"

human_interaction_orchestrator_WrongName(ctx, rs) ==
    IF Len(rs) = 0
    THEN CallOne(Act("send_approval_request", [approval_id |-> ctx.instance_id]))
    ELSE IF ~rs[1].ok THEN Raise(rs[1].val)
    ELSE IF Len(rs) = 1 THEN WaitEvent("approval")
    ELSE Return(rs[2].val)

\* rs[1]: send_approval_request, rs[2]: the external event, rs[3]: process_approval
\* of the try block, rs[4]: process_approval of the except block
human_interaction_orchestrator(ctx, rs) ==
    LET request_data == ctx.input
        approval_request ==
            [approval_id |-> ctx.instance_id,
             request_type |-> request_data.request_type,
             amount |-> request_data.amount,
             requester |-> request_data.requester,
             description |-> request_data.description,
             created_at |-> ctx.started,
             timeout_minutes |-> request_data.timeout_minutes]
        Process(approval_response, status_) ==
            CallOne(Act("process_approval",
                        [approval_request |-> approval_request,
                         approval_response |-> approval_response,
                         status |-> status_]))
        \* the except block, entered with the yields before from already taken
        Except(from) ==
            IF Len(rs) < from THEN Process(None, "error")
            ELSE IF rs[from].ok THEN Return(rs[from].val)
            ELSE Raise(rs[from].val)
    IN IF Len(rs) = 0 THEN CallOne(Act("send_approval_request", approval_request))
       ELSE IF ~rs[1].ok THEN Raise(rs[1].val)
       ELSE IF Len(rs) = 1 THEN WaitEvent("approval_response")
       ELSE IF ~rs[2].ok THEN Except(3)
       ELSE IF Len(rs) = 2
            THEN Process(rs[2].val, IF rs[2].val.approved THEN "approved" ELSE "rejected")
       ELSE IF rs[3].ok THEN Return(rs[3].val)
       ELSE Except(4)

send_approval_request(approvalRequest, clock) ==
    Ok([approval_id |-> approvalRequest.approval_id,
        notification_sent |-> TRUE,
        notification_method |-> "email",
        recipient |-> "manager@company.com",
        sent_at |-> clock,
        approval_url |-> <<"http://localhost:7071/api/approve/", approvalRequest.approval_id>>])

process_approval(approvalData, clock) ==
    LET approval_request == approvalData.approval_request
        approval_response == approvalData.approval_response
        status_ == approvalData.status
        result == [approval_id |-> approval_request.approval_id,
                   request_type |-> approval_request.request_type,
                   amount |-> approval_request.amount,
                   requester |-> approval_request.requester,
                   status |-> status_,
                   processed_at |-> clock,
                   created_at |-> approval_request.created_at]
    IN Ok(CASE status_ = "approved" ->
                  result @@ [approved_by |-> Get(approval_response, "approver", "unknown"),
                             approval_comments |-> Get(approval_response, "comments", ""),
                             approved_at |-> Get(approval_response, "approved_at", None),
                             next_steps |-> "Request will be processed for payment"]
            [] status_ = "rejected" ->
                  result @@ [rejected_by |-> Get(approval_response, "approver", "unknown"),
                             rejection_reason |->
                                 Get(approval_response, "comments", "No reason provided"),
                             rejected_at |-> Get(approval_response, "approved_at", None),
                             next_steps |->
                                 "Request has been denied. Contact approver for details."]
            [] OTHER ->
                  result @@ [timeout_reason |->
                                 <<"No response received within ",
                                   approval_request.timeout_minutes, " minutes">>,
                             next_steps |->
                                 "Request will be escalated to senior management"])

\* the payloads of the two approval endpoints
submit_approval_response(approved, clock) ==
    [approved |-> approved, approver |-> "manager@company.com", comments |-> "",
     approved_at |-> clock]
travel_planner_approve_body == [approved |-> TRUE, comments |-> "Looks good"]

(* ---------------------------- travel planner --------------------------- *)
TravelPlanner == "travel_planner_orchestration"

\* json.loads of a posted string: <<>> when it raises
json_loads(text) ==
    CASE text = "{\"approved\": true}" -> <<PyDict([approved |-> PyBool(TRUE)])>>
      [] text = "[true]" -> <<PyList(<<PyBool(TRUE)>>)>>
      [] OTHER -> <<>>

\* the approval the orchestrator goes by: a string is parsed, and a string
\* that is not JSON counts as a refusal
ApprovalResult(approval_result) ==
    IF approval_result.t = "str"
    THEN IF json_loads(approval_result.v) = <<>>
         THEN PyDict([approved |-> PyBool(FALSE),
                      comments |-> PyStr("Invalid approval format")])
         ELSE json_loads(approval_result.v)[1]
    ELSE approval_result

travel_planner_orchestration_Uncaught(ctx, rs) ==
    IF Len(rs) = 0 THEN CallOne(Act("get_destinations", ctx.input))
    ELSE IF ~rs[1].ok THEN Raise(rs[1].val)
    ELSE Return([error |-> "No destinations found"])

\* rs[1]: get_destinations, rs[2]: create_itinerary, rs[3]: get_local_recs,
\* rs[4]: the ApprovalEvent, rs[5]: book_trip. The whole body is one try
\* block: an error raised by a yield, or by approval_result.get on a value
\* that is not a dict, is returned as {"error": str(ex)}
travel_planner_orchestration(ctx, rs) ==
    LET travel_request == ctx.input
        n == Len(rs)
        f == FirstFailure(rs, 5)
        destinations == rs[1].val
        top_destination == destinations.recommendations[1]
        itinerary == rs[2].val
        local_recs == rs[3].val
        approval_result == ApprovalResult(rs[4].val)
        booking_result == rs[5].val
        itinerary_request ==
            [destination_name |-> top_destination.destination_name,
             duration_in_days |-> Get(travel_request, "durationInDays", 3),
             budget |-> Get(travel_request, "budget", "$1000"),
             travel_dates |-> Get(travel_request, "travelDates", "TBD"),
             special_requirements |-> Get(travel_request, "specialRequirements", "")]
        local_request ==
            [destination_name |-> top_destination.destination_name,
             duration_in_days |-> Get(travel_request, "durationInDays", 3),
             preferred_cuisine |-> "Any",
             include_hidden_gems |-> TRUE,
             family_friendly |-> TRUE]
        booking_request ==
            [destination_name |-> top_destination.destination_name,
             estimated_cost |-> Get(itinerary, "estimated_total_cost", "TBD"),
             travel_dates |-> Get(itinerary, "travel_dates", "TBD"),
             user_name |-> Get(travel_request, "userName", "Unknown"),
             approval_comments |-> Get(approval_result.v, "comments", PyStr(""))]
        Plan == [DestinationRecommendations |-> destinations,
                 Itinerary |-> itinerary,
                 LocalRecommendations |-> local_recs]
    IN IF f # 0 THEN Return([error |-> rs[f].val])
       ELSE IF n = 0 THEN CallOne(Act("get_destinations", travel_request))
       ELSE IF destinations.recommendations = <<>>
            THEN Return([error |-> "No destinations found"])
       ELSE IF n = 1 THEN CallOne(Act("create_itinerary", itinerary_request))
       ELSE IF n = 2 THEN CallOne(Act("get_local_recs", local_request))
       ELSE IF n = 3 THEN WaitEvent("ApprovalEvent")
       ELSE IF approval_result.t # "dict"
            THEN Return([error |-> <<"'", approval_result.t,
                                     "' object has no attribute 'get'">>])
       ELSE IF PyTruthy(Get(approval_result.v, "approved", PyBool(FALSE)))
            THEN IF n = 4 THEN CallOne(Act("book_trip", booking_request))
                 ELSE Return(
                     [Plan |-> Plan @@
                          [Attractions |-> Get(local_recs, "attractions", <<>>),
                           Restaurants |-> Get(local_recs, "restaurants", <<>>),
                           InsiderTips |-> Get(local_recs, "insider_tips", "")],
                      BookingResult |-> booking_result,
                      BookingConfirmation |->
                          <<"Booking confirmed for your trip to ",
                            top_destination.destination_name, "! Confirmation ID: ",
                            Get(booking_result, "booking_id", "N/A")>>,
                      DocumentUrl |-> <<"https://example.com/booking/", ctx.instance_id>>])
       ELSE Return(
                [Plan |-> Plan,
                 BookingConfirmation |->
                     <<"Travel plan was not approved. Comments: ",
                       PyToStr(Get(approval_result.v, "comments",
                                   PyStr("No comments provided"))).v>>])

\* the activities: each catches what its service raises and returns a
\* fallback value
get_destinations(request, found) ==
    Ok([recommendations |->
            IF found
            THEN <<[destination_name |-> "Lisbon", description |-> "Coastal capital",
                    reasoning |-> "Matches the preferences", match_score |-> 90]>>
            ELSE <<>>])

create_itinerary(request, generated) ==
    Ok([destination_name |-> request.destination_name,
        travel_dates |-> request.travel_dates,
        daily_plan |-> <<>>,
        estimated_total_cost |-> IF generated THEN "$1800" ELSE "0",
        additional_notes |->
            IF generated THEN "Generated itinerary" ELSE "Error generating itinerary"])

get_local_recs(request, generated) ==
    Ok([attractions |-> <<>>, restaurants |-> <<>>,
        insider_tips |-> IF generated THEN "Take tram 28 early"
                         ELSE "Error generating local recommendations"])

BookingNumbers == {100000, 999999}
book_trip(request, number) ==
    LET destination == Get(request, "destination_name", "Unknown")
        estimated_cost == Get(request, "estimated_cost", "TBD")
        booking_id == <<"TRV-", number>>
    IN Ok([booking_id |-> booking_id,
           status |-> "confirmed",
           destination |-> destination,
           total_cost |-> estimated_cost,
           confirmation_number |-> booking_id,
           booking_date |-> "2025-08-07",
           message |-> <<"Trip to ", destination, " successfully booked!">>,
           next_steps |-> "You will receive confirmation emails shortly with detailed itinerary and vouchers."])

\* bodies posted to travel-planner/approve/{instance_id}
ApprovalBodies ==
    << PyDict([approved |-> PyBool(TRUE), comments |-> PyStr("Looks good")]),
       PyDict([approved |-> PyBool(FALSE), comments |-> PyStr("Too expensive")]),
       PyDict([comments |-> PyStr("Still thinking")]),
       PyDict([approved |-> PyStr("false")]),
       PyStr("{\"approved\": true}"),
       PyStr("approved"),
       PyStr("[true]") >>

(* --------------------------- order processing -------------------------- *)
OrderProcessing == "order_processing_orchestration"

order_processing_orchestration_Forks(ctx, rs) ==
    LET order_id == ctx.input
        n == Len(rs)
        f == FirstFailure(rs, 3)
    IN IF f # 0 THEN Raise(rs[f].val)
       ELSE IF n = 0 THEN CallOne(Act("validate_order", order_id))
       ELSE IF n = 1 THEN CallOne(Act("process_payment", rs[1].val))
       ELSE IF n = 2 THEN CallAll(<<Act("ship_order", rs[2].val),
                                    Act("send_notification", rs[2].val)>>)
       ELSE Return(rs[3].val[2])
order_processing_orchestration(ctx, rs) ==
    LET order_id == ctx.input
        n == Len(rs)
        f == FirstFailure(rs, 4)
    IN IF f # 0 THEN Raise(rs[f].val)
       ELSE IF n = 0 THEN CallOne(Act("validate_order", order_id))
       ELSE IF n = 1 THEN CallOne(Act("process_payment", rs[1].val))
       ELSE IF n = 2 THEN CallOne(Act("ship_order", rs[2].val))
       ELSE IF n = 3 THEN CallOne(Act("send_notification", rs[3].val))
       ELSE Return(rs[4].val)

validate_order(order_id) == Ok(<<"Validated(">> \o order_id \o <<")">>)
process_payment(input) == Ok(<<"Paid(">> \o input \o <<")">>)
ship_order(input) == Ok(<<"Shipped(">> \o input \o <<")">>)
order_send_notification(input) == Ok(<<"Notified(">> \o input \o <<")">>)

(* ------------------------------ the engine ----------------------------- *)
Orchestrators ==
    {Chaining, Saga, FanOut, LargePayload, Eternal, Versioned, AsyncHttp, Monitoring,
     OrderProcessing}

\* the registry of orchestrator functions
Logic(o, ctx, rs) ==
    CASE o = Chaining -> function_chaining_orchestrator(ctx, rs)
      [] o = Saga -> travel_booking_saga(ctx, rs)
      [] o = FanOut -> fan_out_fan_in_orchestrator(ctx, rs)
      [] o = LargePayload -> large_payload_orchestrator(ctx, rs)
      [] o = Eternal -> eternal_orchestrator(ctx, rs)
      [] o = Versioned -> versioned_orchestration(ctx, rs)
      [] o = AsyncHttp -> async_http_api_orchestrator(ctx, rs)
      [] o = Monitoring -> monitoring_job_orchestrator(ctx, rs)
      [] o = HumanInteraction -> human_interaction_orchestrator(ctx, rs)
      [] o = TravelPlanner -> travel_planner_orchestration(ctx, rs)
      [] o = OrderProcessing -> order_processing_orchestration(ctx, rs)

\* values random.randint and uuid.uuid4 can return, and whether a health check succeeds
Rands == {10, 20}
Uuids == {"uuid-a", "uuid-b"}

\* the registry of activity functions: every outcome a run of the activity can have
Outcomes(o, name, input, clock) ==
    CASE o = Chaining /\ name = "say_hello" -> {chaining_say_hello(input)}
      [] o = Chaining /\ name = "process_greeting" -> {chaining_process_greeting(input)}
      [] o = Chaining /\ name = "finalize_response" -> {chaining_finalize_response(input)}
      [] o = Saga /\ name = "book_flight" -> {book_flight(input, clock)}
      [] o = Saga /\ name = "book_hotel" -> {book_hotel(input, clock)}
      [] o = Saga /\ name = "book_car" -> {book_car(input, clock)}
      [] o = Saga /\ name = "cancel_flight" -> {cancel_flight(input)}
      [] o = Saga /\ name = "cancel_hotel" -> {cancel_hotel(input)}
      [] o = Saga /\ name = "cancel_car" -> {cancel_car(input)}
      [] o = FanOut /\ name = "process_work_item" ->
            {process_work_item(input, r) : r \in Rands}
      [] o = FanOut /\ name = "aggregate_results" -> {aggregate_results(input)}
      [] o = LargePayload /\ name = "process_large_data" -> {process_large_data(input)}
      [] o = Eternal /\ name = "execute_periodic_task" ->
            {execute_periodic_task(input, clock, b) : b \in BOOLEAN}
      [] o = Eternal /\ name = "wait_for_interval" -> {eternal_wait_for_interval(input, clock)}
      [] o = Versioned /\ name = "say_hello" -> {versioned_say_hello(input)}
      [] o = Versioned /\ name = "say_goodbye" -> {say_goodbye(input)}
      [] o = Versioned /\ name = "send_notification" -> {send_notification(input)}
      [] o = AsyncHttp /\ name = "long_running_operation" ->
            {long_running_operation(input, clock, u) : u \in Uuids}
      [] o = Monitoring /\ name = "check_job_status" -> {check_job_status(input, clock)}
      [] o = Monitoring /\ name = "wait_for_interval" -> {monitoring_wait_for_interval(input)}
      [] o = HumanInteraction /\ name = "send_approval_request" ->
            {send_approval_request(input, clock)}
      [] o = HumanInteraction /\ name = "process_approval" -> {process_approval(input, clock)}
      [] o = TravelPlanner /\ name = "get_destinations" ->
            {get_destinations(input, b) : b \in BOOLEAN}
      [] o = TravelPlanner /\ name = "create_itinerary" ->
            {create_itinerary(input, b) : b \in BOOLEAN}
      [] o = TravelPlanner /\ name = "get_local_recs" ->
            {get_local_recs(input, TRUE)}
      [] o = TravelPlanner /\ name = "book_trip" ->
            {book_trip(input, k) : k \in BookingNumbers}
      [] o = OrderProcessing /\ name = "validate_order" -> {validate_order(input)}
      [] o = OrderProcessing /\ name = "process_payment" -> {process_payment(input)}
      [] o = OrderProcessing /\ name = "ship_order" -> {ship_order(input)}
      [] o = OrderProcessing /\ name = "send_notification" -> {order_send_notification(input)}

\* history events
Event(type, seq, name, val, ts) ==
    [type |-> type, seq |-> seq, name |-> name, val |-> val, ts |-> ts]
StartedEvent(o, input, ver, ts) ==
    Event("OrchestrationStarted", -1, o, [input |-> input, version |-> ver], ts)

CompletionTypes == {"ActivityCompleted", "ActivityFailed"}
ScheduledAt(h, s) == {i \in DOMAIN h : h[i].type = "ActivityScheduled" /\ h[i].seq = s}
CompletionsOf(h, s) == {i \in DOMAIN h : h[i].type \in CompletionTypes /\ h[i].seq = s}
Least(S) == CHOOSE i \in S : \A j \in S : i <= j
Greatest(S) == CHOOSE i \in S : \A j \in S : i >= j

\* the value the first completion event of task s gives to the yield that awaits it
ResultOf(h, s) ==
    LET e == h[Least(CompletionsOf(h, s))]
    IN [ok |-> e.type = "ActivityCompleted", val |-> e.val, t |-> e.ts]

\* the replay-stable current time after the yields rs
TimeAfter(ctx, rs) == IF Len(rs) = 0 THEN ctx.started ELSE rs[Len(rs)].t

\* what a resolved yield evaluates to: the task's result, or for task_all the
\* results in submission order, or the error of the child that failed first
YieldValue(mode, h, seqs, tPrev) ==
    IF mode = "one" THEN ResultOf(h, seqs[1])
    ELSE LET failed == {i \in DOMAIN seqs : ~ResultOf(h, seqs[i]).ok}
             at(i) == Least(CompletionsOf(h, seqs[i]))
             t == IF Len(seqs) = 0 THEN tPrev
                  ELSE h[Greatest({at(i) : i \in DOMAIN seqs})].ts
         IN IF failed = {}
            THEN [ok |-> TRUE, val |-> [i \in DOMAIN seqs |-> ResultOf(h, seqs[i]).val], t |-> t]
            ELSE LET first == CHOOSE i \in failed : \A j \in failed : at(i) <= at(j)
                 IN [ok |-> FALSE, val |-> ResultOf(h, seqs[first]).val, t |-> t]

\* the events raised under a name, in the order history records them; the
\* k-th wait for a name is resolved by the k-th of them
RaisedEvents_AnyName(h, name) ==
    LET Match(e) == e.type = "EventRaised" IN SelectSeq(h, Match)
RaisedEvents(h, name) ==
    LET Match(e) == e.type = "EventRaised" /\ e.name = name IN SelectSeq(h, Match)
WaitsFor(waits, name) == Cardinality({i \in DOMAIN waits : waits[i] = name})

Numbered_Same(actions, nextSeq) ==
    [i \in DOMAIN actions |->
        [seq |-> nextSeq, name |-> actions[i].name, input |-> actions[i].input]]

\* the actions of one suspension, numbered with the next unused sequence numbers
Numbered(actions, nextSeq) ==
    [i \in DOMAIN actions |->
        [seq |-> nextSeq + i - 1, name |-> actions[i].name, input |-> actions[i].input]]

\* an action consumes the stored result only when its Scheduled event and a
\* completion event are both in history
Resolved(h, s) == ScheduledAt(h, s) # {} /\ CompletionsOf(h, s) # {}

\* a requested action does not match history: a Scheduled event is recorded
\* under its sequence number, for another activity
Mismatches_Never(h, items) == FALSE
Mismatches(h, items) ==
    \E i \in DOMAIN items :
        /\ ScheduledAt(h, items[i].seq) # {}
        /\ h[Least(ScheduledAt(h, items[i].seq))].name # items[i].name

\* a requested action is new when no Scheduled event carries its sequence number
IsNew_Outstanding(h, it) == ~Resolved(h, it.seq)
IsNew(h, it) == ScheduledAt(h, it.seq) = {}

RECURSIVE Exec(_, _, _, _, _)
\* The replay executor: run the function from the top over history h.
\* acc: the sequence number to use next, every action requested so far, and
\* those of them that history does not record yet.
Exec(o, ctx, h, rs, acc) ==
    LET req == Logic(o, ctx, rs)
    IN IF req.t = "call" THEN
           LET items == Numbered(req.actions, acc.nextSeq)
               seqs == [i \in DOMAIN items |-> items[i].seq]
               NotRecorded(it) == IsNew(h, it)
               mismatch == Mismatches(h, items)
               acc2 == [acc EXCEPT !.nextSeq = acc.nextSeq + Len(items),
                                   !.requested = acc.requested \o items,
                                   !.new = acc.new \o SelectSeq(items, NotRecorded)]
           IN IF mismatch THEN
                  [outcome |-> "nondeterminism", val |-> <<"DeterminismViolation">>,
                   requested |-> acc2.requested, new |-> <<>>]
              ELSE IF \A i \in DOMAIN items : Resolved(h, items[i].seq) THEN
                  Exec(o, ctx, h,
                       Append(rs, YieldValue(req.mode, h, seqs, TimeAfter(ctx, rs))), acc2)
              ELSE [outcome |-> "suspended", val |-> None,
                    requested |-> acc2.requested, new |-> acc2.new]
       ELSE IF req.t = "wait" THEN
           LET evs == RaisedEvents(h, req.name)
               k == WaitsFor(acc.waits, req.name) + 1
               tPrev == TimeAfter(ctx, rs)
           IN IF k <= Len(evs) THEN
                  Exec(o, ctx, h,
                       Append(rs, [ok |-> TRUE, val |-> evs[k].val,
                                   t |-> IF evs[k].ts > tPrev THEN evs[k].ts ELSE tPrev]),
                       [acc EXCEPT !.waits = Append(@, req.name)])
              ELSE [outcome |-> "suspended", val |-> None,
                    requested |-> acc.requested, new |-> acc.new]
       ELSE [outcome |-> req.t, val |-> req.val,
             requested |-> acc.requested, new |-> acc.new]

InstanceId == "instance-1"

\* the version tag orchestration code reads: the one recorded at schedule time
CtxVersion(h, deployed) == h[1].val.version

Context(h, deployed, uuid) ==
    [input |-> h[1].val.input, version |-> CtxVersion(h, deployed),
     uuid4 |-> uuid, started |-> h[1].ts, instance_id |-> InstanceId]

Replay(o, h, deployed, uuid) ==
    Exec(o, Context(h, deployed, uuid), h, <<>>,
         [nextSeq |-> 0, requested |-> <<>>, new |-> <<>>, waits |-> <<>>])

ScheduledEvents(new, ts) ==
    [i \in DOMAIN new |-> Event("ActivityScheduled", new[i].seq, new[i].name, new[i].input, ts)]

SeqsOf(new) == {new[i].seq : i \in DOMAIN new}

(* ------------------------------ entities ------------------------------- *)
\* ctx.get_state(int, 0): the state blob is <<>> until set_state is called
get_state(blob, default) == IF blob = <<>> THEN default ELSE blob[1]

counter_AddTwice(blob, operation, input) ==
    LET state == get_state(blob, 0)
    IN CASE operation = "add" -> [state |-> <<state + input + input>>, result |-> None]
         [] operation = "subtract" -> [state |-> <<state - input>>, result |-> None]
         [] operation = "get" -> [state |-> blob, result |-> state]
         [] operation = "reset" -> [state |-> <<0>>, result |-> None]
         [] OTHER -> [state |-> blob, result |-> None]

counter_IgnoresState(blob, operation, input) ==
    LET state == get_state(blob, 0)
    IN CASE operation = "add" -> [state |-> <<input>>, result |-> None]
         [] operation = "subtract" -> [state |-> <<0 - input>>, result |-> None]
         [] operation = "get" -> [state |-> blob, result |-> state]
         [] operation = "reset" -> [state |-> <<0>>, result |-> None]
         [] OTHER -> [state |-> blob, result |-> None]

counter_UnknownResets(blob, operation, input) ==
    LET state == get_state(blob, 0)
    IN CASE operation = "add" -> [state |-> <<state + input>>, result |-> None]
         [] operation = "subtract" -> [state |-> <<state - input>>, result |-> None]
         [] operation = "get" -> [state |-> blob, result |-> state]
         [] OTHER -> [state |-> <<0>>, result |-> None]

\* the counter entity: the state it commits and the value it returns
counter(blob, operation, input) ==
    LET state == get_state(blob, 0)
    IN CASE operation = "add" -> [state |-> <<state + input>>, result |-> None]
         [] operation = "subtract" -> [state |-> <<state - input>>, result |-> None]
         [] operation = "get" -> [state |-> blob, result |-> state]
         [] operation = "reset" -> [state |-> <<0>>, result |-> None]
         [] OTHER -> [state |-> blob, result |-> None]

\* an operation asked of an entity
EntityOp(operation, input) == [operation |-> operation, input |-> input]

counter_workflow_SubtractFirst(ctx, rs) ==
    LET entity_key == ctx.input
    IN IF Len(rs) < 1
       THEN [t |-> "call_entity", entity |-> entity_key,
             signals |-> <<EntityOp("subtract", 3), EntityOp("add", 10), EntityOp("add", 5)>>,
             call |-> EntityOp("get", None)]
       ELSE Return(<<"Counter '">> \o entity_key \o <<"' final value: ", rs[1].val>>)

\* counter_workflow: three signals and a call on its first run, the formatted
\* value once the call has returned
counter_workflow(ctx, rs) ==
    LET entity_key == ctx.input
    IN IF Len(rs) < 1
       THEN [t |-> "call_entity", entity |-> entity_key,
             signals |-> <<EntityOp("add", 10), EntityOp("add", 5), EntityOp("subtract", 3)>>,
             call |-> EntityOp("get", None)]
       ELSE Return(<<"Counter '">> \o entity_key \o <<"' final value: ", rs[1].val>>)

\* client main: the two direct signals, then one counter_workflow per key
TOTAL_ORCHESTRATIONS == 5
\* orchestrations scheduled in all, by all the runs of the client
MaxWorkflows == 1
main_signals == <<EntityOp("add", 100), EntityOp("subtract", 25)>>
instance_entity_key(entity_key, i) == entity_key \o <<"-orch-", i>>
main_orchestrations == 1..Min(TOTAL_ORCHESTRATIONS, MaxWorkflows)

\* the entity store, the runs of the client and the orchestrations they start
Runs == {"run-1", "run-2"}
ClientKeys == {<<"my-counter">>, <<"my-counter", "-orch-", 1>>}
EntityKeys ==
    ClientKeys \cup {instance_entity_key(k, i) : k \in ClientKeys, i \in main_orchestrations}
Workers == {"worker-1", "worker-2"}
WorkflowIds == Runs \X main_orchestrations
Idle == [idle |-> TRUE]
Scheduled(wfs) == {id \in DOMAIN wfs : wfs[id].status # "none"}

\* the operations a counter_workflow sends, in the order its code sends them
WorkflowOps(key) ==
    LET req == counter_workflow([input |-> key], <<>>) IN Append(req.signals, req.call)

\* signalEntity / callEntity: the operations join the key's queue in the order
\* given, each under the key's next sequence number; the last one is a call
\* when caller names the orchestration that awaits it
RECURSIVE Enqueued(_, _, _)
Enqueued(queue, ops, caller) ==
    IF ops = <<>> THEN queue
    ELSE Enqueued(Append(queue, [seq |-> Len(queue) + 1, operation |-> ops[1].operation,
                                 input |-> ops[1].input,
                                 caller |-> IF Len(ops) = 1 THEN caller ELSE <<>>]),
                  Tail(ops), caller)

\* single writer: no worker is executing an operation of the key
KeyIdle_Always(k) == TRUE
KeyIdle(k) == \A w \in Workers : running[w] # Idle => running[w].key # k

\* a delivery is a duplicate when its sequence number was applied already
IsDuplicate(k, seq) == seq <= lastApplied[k]

\* the operations of a key are handed out in sequence order, and handed out
\* again until their commit is acknowledged (at-least-once): an operation can
\* be delivered when it was applied, is the next to apply, or follows one
\* that a worker is executing
Deliverable(k, seq) ==
    \/ seq <= lastApplied[k] + 1
    \/ \E w \in Workers : running[w] # Idle /\ running[w].key = k /\ running[w].op.seq = seq - 1

EntityIdle ==
    /\ entityState = [k \in EntityKeys |-> <<>>]
    /\ lastApplied = [k \in EntityKeys |-> 0]
    /\ opQueue = [k \in EntityKeys |-> <<>>]
    /\ running = [w \in Workers |-> Idle]
    /\ runPc = [r \in Runs |-> 0]
    /\ workflow = [w \in WorkflowIds |->
                      [status |-> "none", key |-> <<>>, sent |-> 0, result |-> <<>>,
                       output |-> <<>>]]
    /\ lastCommit = "none"
    /\ lastResult = <<>>

(* ------------------------- inputs of the model ------------------------- *)
Names == {<<"World">>, <<"Ada">>}
VersionTags == {None, "1.0.0", "2.0.0", "3.0.0", "1.9", "10.0.0", "beta"}
DeployedVersions == {"1.0.0", "2.0.0", "3.0.0"}
WorkItemNames == <<"Item1", "Item2", "Item3", "Item4", "Item5">>

InputsOf(o) ==
    CASE o = Chaining -> Names
      [] o = Saga ->
            {[destination |-> "Paris"], [destination |-> "Tokyo", nights |-> 3]}
            \cup [destination : {"Paris", "Nowhere"}, nights : {0, 5},
                  simulate_car_failure : BOOLEAN]
      [] o = FanOut -> {SubSeq(WorkItemNames, 1, k) : k \in 0..MaxItems}
      [] o = LargePayload ->
            [activity_count : 0..MaxItems, payload_size_kb : {1, 100}]
      [] o = Eternal ->
            [task_type : {"health_check", "cleanup"}, interval_minutes : {2},
             max_iterations : 1..MaxIter, target_url : {"https://httpbin.org/status/200"}]
      [] o = Versioned -> Names
      [] o = AsyncHttp ->
            [operation_type : {"data_processing"}, duration : {30},
             data : {[sample |-> "data"]}]
      [] o = Monitoring ->
            [job_id : {"job-1"}, polling_interval_seconds : {1},
             timeout_seconds : {0, 1, 30}]
      [] o = OrderProcessing -> {<<"Order-12345">>}
      [] o = HumanInteraction ->
            [request_type : {"expense_approval"}, amount : {1500},
             requester : {"john.doe@company.com"},
             description : {"Business travel expenses"}, timeout_minutes : {10}]
      [] o = TravelPlanner ->
            {[userName |-> "Ada", preferences |-> "beaches", durationInDays |-> 5,
              budget |-> "$2000", travelDates |-> "June", specialRequirements |-> ""]}

\* no work item is out, one instance only, the code is the code scheduled
DispatcherIdle ==
    /\ workItems = <<>>
    /\ inbox = <<>>
    /\ instances = <<>>
    /\ deployedLogic = None

\* llm.py was imported and no thread is inside _get_client: _client is None
\* (<<>> here), no OpenAI object was constructed
Threads == {"thread-1", "thread-2"}
LlmLoaded(endpoint, api_key) ==
    [client |-> <<>>, constructed |-> <<>>,
     AZURE_OPENAI_ENDPOINT |-> endpoint, AZURE_OPENAI_API_KEY |-> api_key,
     frame |-> [t \in Threads |-> [pc |-> "idle", calls |-> 0, made |-> 0,
                                   outcomes |-> <<>>]]]

\* no research loop runs
NoCall == [input |-> <<>>, response |-> <<>>, result |-> <<>>]
ResearchIdle ==
    /\ research = [pc |-> "idle", current_iteration |-> 0, max_iterations |-> 0,
                   rounds |-> 0, llm_calls |-> 0]
    /\ decided = NoCall
    /\ follow_up = NoCall
    /\ llm = LlmLoaded(TRUE, TRUE)

NoPass == [outcome |-> "none", val |-> None, requested |-> <<>>, new |-> <<>>,
           version |-> None, at |-> <<>>]

\* schedule(orchestrationName, input, version): the instance is created and
\* OrchestrationStarted is appended
Init ==
    /\ orch \in Orchestrators
    /\ version \in (IF orch = Versioned THEN VersionTags ELSE {None})
    /\ workerVersion = "3.0.0"
    /\ \E input \in InputsOf(orch) : history = <<StartedEvent(orch, input, version, 0)>>
    /\ status = "Running"
    /\ output = <<>>
    /\ pending = {}
    /\ dispatched = <<>>
    /\ queued = TRUE
    /\ now = 0
    /\ generation = 0
    /\ lastPass = NoPass
    /\ EntityIdle
    /\ runKey = [r \in Runs |-> <<"my-counter">>]
    /\ raised = <<>>
    /\ DispatcherIdle
    /\ ResearchIdle

\* what one replay pass of a queued instance does with the executor's answer r
ApplyPass(r) ==
    /\ lastPass' = [outcome |-> r.outcome, val |-> r.val, requested |-> r.requested,
                    new |-> r.new, version |-> CtxVersion(history, workerVersion),
                    at |-> history]
    /\ dispatched' = dispatched \o r.new
    /\ IF r.outcome = "continue_as_new" THEN
           /\ history' = <<StartedEvent(orch, r.val, history[1].val.version, now)>>
           /\ generation' = generation + 1
           /\ pending' = {}
           /\ queued' = TRUE
           /\ UNCHANGED <<status, output>>
       ELSE
           /\ generation' = generation
           /\ pending' = pending \cup SeqsOf(r.new)
           /\ queued' = FALSE
           /\ IF r.outcome = "suspended" THEN
                  /\ history' = history \o ScheduledEvents(r.new, now)
                  /\ UNCHANGED <<status, output>>
              ELSE
                  /\ status' = (IF r.outcome = "return" THEN "Completed" ELSE "Failed")
                  /\ output' = r.val
                  /\ history' = history \o ScheduledEvents(r.new, now)
                                 \o <<Event("OrchestrationCompleted", -1, status', r.val, now)>>

ReplayPass ==
    /\ status = "Running"
    /\ queued
    /\ \E uuid \in Uuids : ApplyPass(Replay(orch, history, workerVersion, uuid))
    /\ UNCHANGED <<orch, version, workerVersion, now>>
    /\ UNCHANGED <<entityVars, eventVars, researchVars, dispatcherVars>>

ActivityComplete_Overwrites ==
    /\ status = "Running"
    /\ \E s \in pending :
          LET at == Least(ScheduledAt(history, s))
              e == history[at]
          IN \E r \in Outcomes(orch, e.name, e.val, now) :
                history' = [history EXCEPT ![at] =
                    Event(IF r.ok THEN "ActivityCompleted" ELSE "ActivityFailed",
                          s, e.name, r.val, now)]
                /\ pending' = pending \ {s}
    /\ queued' = TRUE
    /\ UNCHANGED <<orch, version, workerVersion, status, output, dispatched, now,
                   generation, lastPass>>
    /\ UNCHANGED <<entityVars, eventVars, researchVars, dispatcherVars>>

\* a worker runs the activity of a dispatched work item and the dispatcher
\* appends its completion and requeues the instance
ActivityComplete ==
    /\ status = "Running"
    /\ \E s \in pending :
          LET e == history[Least(ScheduledAt(history, s))]
          IN \E r \in Outcomes(orch, e.name, e.val, now) :
                history' = Append(history,
                    Event(IF r.ok THEN "ActivityCompleted" ELSE "ActivityFailed",
                          s, e.name, r.val, now))
                /\ pending' = pending \ {s}
    /\ queued' = TRUE
    /\ UNCHANGED <<orch, version, workerVersion, status, output, dispatched, now,
                   generation, lastPass>>
    /\ UNCHANGED <<entityVars, eventVars, researchVars, dispatcherVars>>

\* the activity raises for a reason of its environment
ActivityFail ==
    /\ status = "Running"
    /\ \E s \in pending :
          LET e == history[Least(ScheduledAt(history, s))]
          IN /\ history' = Append(history,
                    Event("ActivityFailed", s, e.name, <<"Exception">>, now))
             /\ pending' = pending \ {s}
    /\ queued' = TRUE
    /\ UNCHANGED <<orch, version, workerVersion, status, output, dispatched, now,
                   generation, lastPass>>
    /\ UNCHANGED <<entityVars, eventVars, researchVars, dispatcherVars>>

Tick ==
    /\ now < MaxTime
    /\ now' = now + 1
    /\ UNCHANGED <<orch, version, workerVersion, history, status, output, pending,
                   dispatched, queued, generation, lastPass>>
    /\ UNCHANGED <<entityVars, eventVars, researchVars, dispatcherVars>>

\* the worker is restarted with another version of the code deployed
Redeploy ==
    /\ orch = Versioned
    /\ \E v \in DeployedVersions \ {workerVersion} : workerVersion' = v
    /\ UNCHANGED <<orch, version, history, status, output, pending, dispatched,
                   queued, now, generation, lastPass>>
    /\ UNCHANGED <<entityVars, eventVars, researchVars, dispatcherVars>>

Next == ReplayPass \/ ActivityComplete \/ ActivityFail \/ Tick \/ Redeploy

Spec == Init /\ [][Next]_vars

\* a monitoring instance under fair scheduling: a queued instance is replayed
\* in the end (ReplayPass is enabled exactly when the instance is Running and
\* queued, and takes it off the queue), a dispatched activity is run in the
\* end, and the clock runs
InitMonitor ==
    /\ Init
    /\ orch = Monitoring

NextMonitor == ReplayPass \/ ActivityComplete \/ ActivityFail \/ Tick

SpecMonitorLive ==
    /\ InitMonitor
    /\ [][NextMonitor]_vars
    /\ []<>~(status = "Running" /\ queued)
    /\ WF_pending(ActivityComplete)
    /\ WF_now(Tick)

\* an eternal orchestration under the same fair scheduling
InitEternal ==
    /\ Init
    /\ orch = Eternal

SpecEternalLive ==
    /\ InitEternal
    /\ [][NextMonitor]_vars
    /\ []<>~(status = "Running" /\ queued)
    /\ WF_pending(ActivityComplete)
    /\ WF_now(Tick)

(* ----------------- the entity store and its senders -------------------- *)
NoInstance ==
    /\ orch = None
    /\ version = None
    /\ workerVersion = "3.0.0"
    /\ history = <<>>
    /\ status = "Pending"
    /\ output = <<>>
    /\ pending = {}
    /\ dispatched = <<>>
    /\ queued = FALSE
    /\ now = 0
    /\ generation = 0
    /\ lastPass = NoPass

InitEntity ==
    /\ NoInstance
    /\ EntityIdle
    /\ raised = <<>>
    /\ DispatcherIdle
    /\ ResearchIdle
    /\ \E entity_key \in ClientKeys :
          runKey = [r \in Runs |-> IF r = "run-1" THEN <<"my-counter">> ELSE entity_key]

\* one step of client main: the next direct signal, then the next
\* schedule_new_orchestration("counter_workflow", input=instance_entity_key)
main(r) ==
    /\ IF runPc[r] < Len(main_signals)
       THEN /\ opQueue' = [opQueue EXCEPT ![runKey[r]] =
                     Enqueued(@, <<main_signals[runPc[r] + 1]>>, <<>>)]
            /\ UNCHANGED workflow
       ELSE LET i == runPc[r] - Len(main_signals) + 1
            IN /\ i \in main_orchestrations
               /\ Cardinality(Scheduled(workflow)) < MaxWorkflows
               /\ workflow' = [workflow EXCEPT ![<<r, i>>] =
                     [@ EXCEPT !.status = "running",
                               !.key = instance_entity_key(runKey[r], i)]]
               /\ UNCHANGED opQueue
    /\ runPc' = [runPc EXCEPT ![r] = @ + 1]
    /\ UNCHANGED <<entityState, lastApplied, running, runKey, lastCommit, lastResult>>
    /\ UNCHANGED <<instanceVars, eventVars, researchVars, dispatcherVars>>

\* the first run of a counter_workflow: its three signals and its call are
\* sent, in the order of the code
WorkflowSend(id) ==
    LET wf == workflow[id]
        ops == WorkflowOps(wf.key)
    IN /\ wf.status = "running"
       /\ wf.sent = 0
       /\ opQueue' = [opQueue EXCEPT ![wf.key] = Enqueued(@, ops, id)]
       /\ workflow' = [workflow EXCEPT ![id] = [@ EXCEPT !.sent = Len(ops)]]
       /\ UNCHANGED <<entityState, lastApplied, running, runKey, runPc, lastCommit, lastResult>>
       /\ UNCHANGED <<instanceVars, eventVars, researchVars, dispatcherVars>>

\* a delivery: a worker is handed an operation of the key's queue (a first
\* delivery or a repeated one) and reads the key's state
BeginOperation(w, k) ==
    /\ running[w] = Idle
    /\ KeyIdle(k)
    /\ \E i \in DOMAIN opQueue[k] :
          /\ Deliverable(k, opQueue[k][i].seq)
          /\ running' = [running EXCEPT ![w] =
              [key |-> k, op |-> opQueue[k][i], read |-> entityState[k]]]
    /\ UNCHANGED <<entityState, lastApplied, opQueue, runKey, runPc, workflow, lastCommit, lastResult>>
    /\ UNCHANGED <<instanceVars, eventVars, researchVars, dispatcherVars>>

\* the worker commits: the operation is applied when it is the next of its
\* key, dropped when it is a duplicate, and left for a later delivery otherwise
CommitOperation(w) ==
    /\ running[w] # Idle
    /\ LET e == running[w]
           k == e.key
           r == counter(e.read, e.op.operation, e.op.input)
           apply == ~IsDuplicate(k, e.op.seq) /\ e.op.seq = lastApplied[k] + 1
       IN /\ entityState' = IF apply THEN [entityState EXCEPT ![k] = r.state]
                            ELSE entityState
          /\ lastApplied' = IF apply THEN [lastApplied EXCEPT ![k] = e.op.seq]
                            ELSE lastApplied
          /\ workflow' = IF apply /\ e.op.caller # <<>>
                         THEN [workflow EXCEPT ![e.op.caller] =
                                  [@ EXCEPT !.result = <<r.result>>]]
                         ELSE workflow
          /\ lastResult' = IF apply /\ e.op.caller = <<>> THEN <<r.result>> ELSE lastResult
          /\ lastCommit' = IF apply THEN "applied"
                            ELSE IF IsDuplicate(k, e.op.seq) THEN "duplicate" ELSE "early"
    /\ running' = [running EXCEPT ![w] = Idle]
    /\ UNCHANGED <<opQueue, runKey, runPc>>
    /\ UNCHANGED <<instanceVars, eventVars, researchVars, dispatcherVars>>

\* the call has returned: counter_workflow runs to its return statement
WorkflowComplete(id) ==
    LET wf == workflow[id]
    IN /\ wf.status = "running"
       /\ wf.result # <<>>
       /\ workflow' = [workflow EXCEPT ![id] =
             [@ EXCEPT !.status = "completed",
                       !.output = counter_workflow([input |-> wf.key],
                                                   <<Ok(wf.result[1])>>).val]]
       /\ UNCHANGED <<entityState, lastApplied, opQueue, running, runKey, runPc, lastCommit, lastResult>>
       /\ UNCHANGED <<instanceVars, eventVars, researchVars, dispatcherVars>>

\* any client: client.signal_entity(entity_id, operation, input) on a counter
MaxSignals == 2
Operations ==
    <<EntityOp("add", 5), EntityOp("subtract", 3), EntityOp("get", None),
      EntityOp("reset", None), EntityOp("multiply", 2)>>
signal_entity(k, op) ==
    /\ Len(opQueue[<<"my-counter">>]) + Len(opQueue[<<"my-counter", "-orch-", 1>>]) < MaxSignals
    /\ opQueue' = [opQueue EXCEPT ![k] = Enqueued(@, <<op>>, <<>>)]
    /\ UNCHANGED <<entityState, lastApplied, running, runKey, runPc, workflow, lastCommit,
                   lastResult>>
    /\ UNCHANGED <<instanceVars, eventVars, researchVars, dispatcherVars>>

NextCounter ==
    \/ \E k \in ClientKeys, i \in DOMAIN Operations : signal_entity(k, Operations[i])
    \/ \E w \in Workers, k \in EntityKeys : BeginOperation(w, k)
    \/ \E w \in Workers : CommitOperation(w)

\* the counters of two keys under the signals of any clients
SpecCounter == InitEntity /\ [][NextCounter]_vars

NextEntity ==
    \/ \E r \in Runs : main(r)
    \/ \E id \in WorkflowIds : WorkflowSend(id)
    \/ \E w \in Workers, k \in EntityKeys : BeginOperation(w, k)
    \/ \E w \in Workers : CommitOperation(w)
    \/ \E id \in WorkflowIds : WorkflowComplete(id)

SpecEntity == InitEntity /\ [][NextEntity]_vars

(* --------------------------- external events --------------------------- *)
MaxRaised == 2
MaxRedeliveries == 1

\* an instance of human_interaction_orchestrator was started; the clock of
\* this specification stands still
InitEvents ==
    /\ orch = HumanInteraction
    /\ version = None
    /\ workerVersion = "3.0.0"
    /\ \E input \in InputsOf(orch) : history = <<StartedEvent(orch, input, version, 0)>>
    /\ status = "Running"
    /\ output = <<>>
    /\ pending = {}
    /\ dispatched = <<>>
    /\ queued = TRUE
    /\ now = 0
    /\ generation = 0
    /\ lastPass = NoPass
    /\ EntityIdle
    /\ runKey = [r \in Runs |-> <<"my-counter">>]
    /\ raised = <<>>
    /\ DispatcherIdle
    /\ ResearchIdle

\* an event message reaches the instance: it is appended to history (buffered
\* there until a wait asks for it) and the instance is requeued, unless
\* history already holds the message; an instance that has ended takes no
\* event
IsBuffered(h, id) == \E i \in DOMAIN h : h[i].type = "EventRaised" /\ h[i].seq = id
Buffer(m) ==
    /\ status = "Running"
    /\ IF IsBuffered(history, m.id)
       THEN UNCHANGED <<history, queued>>
       ELSE /\ history' = Append(history, Event("EventRaised", m.id, m.name, m.payload, now))
            /\ queued' = TRUE

\* client.raise_event(instance_id, name, payload)
raise_event(name, payload) ==
    /\ Len(raised) < MaxRaised
    /\ LET m == [id |-> Len(raised) + 1, name |-> name, payload |-> payload]
       IN /\ Buffer(m)
          /\ raised' = Append(raised, m @@ [deliveries |-> 1])
    /\ UNCHANGED <<orch, version, workerVersion, status, output, pending, dispatched, now,
                   generation, lastPass>>
    /\ UNCHANGED <<entityVars, dispatcherVars, researchVars>>

\* POST approve/{approvalId} with the instance's id
submit_approval ==
    \E approved \in BOOLEAN :
        raise_event("approval_response", submit_approval_response(approved, now))

\* POST travel-planner/approve/{instance_id} with the instance's id: the
\* body goes into the event as it is; an instance of the other application
\* is sent the one body of the sample's walkthrough
MaxPosts == 1
travel_planner_approve ==
    IF orch = TravelPlanner
    THEN /\ Len(raised) < MaxPosts
         /\ \E i \in DOMAIN ApprovalBodies : raise_event("ApprovalEvent", ApprovalBodies[i])
    ELSE raise_event("ApprovalEvent", travel_planner_approve_body)

\* at-least-once: the message of an earlier raise_event arrives again
RECURSIVE Redelivered(_)
Redelivered(msgs) ==
    IF msgs = <<>> THEN 0 ELSE msgs[1].deliveries - 1 + Redelivered(Tail(msgs))
RedeliverEvent ==
    /\ Redelivered(raised) < MaxRedeliveries
    /\ \E i \in DOMAIN raised :
          /\ Buffer(raised[i])
          /\ raised' = [raised EXCEPT ![i] = [@ EXCEPT !.deliveries = @ + 1]]
    /\ UNCHANGED <<orch, version, workerVersion, status, output, pending, dispatched, now,
                   generation, lastPass>>
    /\ UNCHANGED <<entityVars, dispatcherVars, researchVars>>

NextEvents ==
    \/ ReplayPass
    \/ ActivityComplete
    \/ ActivityFail
    \/ submit_approval
    \/ travel_planner_approve
    \/ RedeliverEvent

SpecEvents == InitEvents /\ [][NextEvents]_vars

\* an instance of travel_planner_orchestration was started
InitPlanner ==
    /\ orch = TravelPlanner
    /\ version = None
    /\ workerVersion = "3.0.0"
    /\ \E input \in InputsOf(orch) : history = <<StartedEvent(orch, input, version, 0)>>
    /\ status = "Running"
    /\ output = <<>>
    /\ pending = {}
    /\ dispatched = <<>>
    /\ queued = TRUE
    /\ now = 0
    /\ generation = 0
    /\ lastPass = NoPass
    /\ EntityIdle
    /\ runKey = [r \in Runs |-> <<"my-counter">>]
    /\ raised = <<>>
    /\ DispatcherIdle
    /\ ResearchIdle

NextPlanner ==
    \/ ReplayPass
    \/ ActivityComplete
    \/ ActivityFail
    \/ travel_planner_approve
    \/ RedeliverEvent

SpecPlanner == InitPlanner /\ [][NextPlanner]_vars

\* the same instance with the clock running: a queued instance is replayed in
\* the end, a dispatched activity is run in the end, time passes; nobody has to
\* answer the approval request. A completion takes its activity out of
\* pending and a tick moves the clock: each fairness condition is subscripted
\* with the variable its action changes. ReplayPass is enabled exactly when
\* the instance is Running and queued, and it takes the instance off the
\* queue, so its weak fairness is that the instance is not queued for ever
NextEventsLive ==
    \/ ReplayPass
    \/ ActivityComplete
    \/ ActivityFail
    \/ submit_approval
    \/ Tick

SpecEventsLive ==
    /\ InitEvents
    /\ [][NextEventsLive]_vars
    /\ []<>~(status = "Running" /\ queued)
    /\ WF_pending(ActivityComplete)
    /\ WF_now(Tick)

(* ---------------------- the at-least-once dispatcher -------------------- *)
MaxRedispatches == 1
MaxGenerations == 2

\* the orchestrations that are started; the worker pool loses work items and
\* workers crash; the clock of this specification stands still
DispatchOrchestrators == {Chaining, Eternal, AsyncHttp}
InitDispatch ==
    /\ Init
    /\ orch \in DispatchOrchestrators
    /\ orch = Eternal => history[1].val.input.max_iterations <= MaxGenerations

\* the correlation id of a work item is its instance's generation and the
\* sequence number of the action
WorkItem(g, a) ==
    [gen |-> g, seq |-> a.seq, name |-> a.name, input |-> a.input,
     handed |-> 1, executions |-> 0, received |-> 0]
Bump(id, field) == [workItems EXCEPT ![id][field] = @ + 1]
RECURSIVE Redispatches(_)
Redispatches(ids) ==
    IF ids = {} THEN 0
    ELSE LET id == CHOOSE id \in ids : TRUE
         IN workItems[id].handed - 1 + Redispatches(ids \ {id})

\* a replay pass of the queued instance; the new actions go to the pool
DispatchPass ==
    /\ status = "Running"
    /\ queued
    /\ \E uuid \in Uuids :
          LET r == Replay(orch, history, workerVersion, uuid)
          IN /\ ApplyPass(r)
             /\ workItems' = [id \in DOMAIN workItems
                                      \cup {<<generation, s>> : s \in SeqsOf(r.new)} |->
                                 IF id \in DOMAIN workItems THEN workItems[id]
                                 ELSE LET i == CHOOSE i \in DOMAIN r.new : r.new[i].seq = id[2]
                                      IN WorkItem(generation, r.new[i])]
    /\ UNCHANGED <<orch, version, workerVersion, now, inbox, instances, deployedLogic>>
    /\ UNCHANGED <<entityVars, eventVars, researchVars>>

\* what a second handout of a work item appends to history
RedispatchEvents_Scheduled(w, clock) ==
    <<Event("ActivityScheduled", w.seq, w.name, w.input, clock)>>
RedispatchEvents(w, clock) == <<>>

\* no completion of the work item was recorded in time (the work item was lost,
\* its worker crashed or is slow): it is handed out again under the same id
Redispatch ==
    /\ status = "Running"
    /\ \E id \in DOMAIN workItems :
          LET w == workItems[id]
          IN /\ w.gen = generation
             /\ w.seq \in pending
             /\ Redispatches(DOMAIN workItems) < MaxRedispatches
             /\ workItems' = Bump(id, "handed")
             /\ dispatched' = Append(dispatched,
                                     [seq |-> w.seq, name |-> w.name, input |-> w.input])
             /\ history' = history \o RedispatchEvents(w, now)
    /\ UNCHANGED <<orch, version, workerVersion, status, output, pending, queued, now,
                   generation, lastPass, inbox, instances, deployedLogic>>
    /\ UNCHANGED <<entityVars, eventVars, researchVars>>

\* a worker runs the activity of a work item it was handed and sends the
\* completion, also when the instance has been terminated meanwhile
Sends(id, r) ==
    LET w == workItems[id]
        run == <<w.gen, w.seq, w.executions + 1>>
    IN /\ w.executions < w.handed
       /\ workItems' = Bump(id, "executions")
       /\ inbox' = (run :> [gen |-> w.gen, seq |-> w.seq, name |-> w.name,
                            ok |-> r.ok, val |-> r.val]) @@ inbox
Execute ==
    /\ \E id \in DOMAIN workItems :
          \E r \in Outcomes(orch, workItems[id].name, workItems[id].input, now) :
              Sends(id, r)
    /\ UNCHANGED <<instanceVars, entityVars, eventVars, researchVars, instances, deployedLogic>>

\* the activity raises for a reason of its environment
ExecuteFails ==
    /\ \E id \in DOMAIN workItems : Sends(id, [ok |-> FALSE, val |-> <<"Exception">>])
    /\ UNCHANGED <<instanceVars, entityVars, eventVars, researchVars, instances, deployedLogic>>

\* a worker runs the activity and crashes before it acknowledges
WorkerCrash ==
    /\ \E id \in DOMAIN workItems :
          /\ workItems[id].executions < workItems[id].handed
          /\ workItems' = Bump(id, "executions")
    /\ UNCHANGED <<instanceVars, entityVars, eventVars, researchVars, inbox, instances, deployedLogic>>

\* the dispatcher's checks on a completion message: the instance was halted,
\* or history already holds a completion of the sequence number
Halted_Never(st) == FALSE
Halted(st) == st # "Running"
IsDuplicateCompletion_Never(h, s) == FALSE
IsDuplicateCompletion(h, s) == CompletionsOf(h, s) # {}
Discarded(m) ==
    \/ Halted(status)
    \/ m.gen # generation
    \/ IsDuplicateCompletion(history, m.seq)

\* the dispatcher receives a completion: it appends it to the history of the
\* instance and requeues the instance, or discards it
ReceiveCompletion ==
    /\ \E run \in DOMAIN inbox :
          LET m == inbox[run]
          IN /\ inbox' = [x \in DOMAIN inbox \ {run} |-> inbox[x]]
             /\ workItems' = Bump(<<m.gen, m.seq>>, "received")
             /\ IF Discarded(m)
                THEN UNCHANGED <<history, pending, queued>>
                ELSE /\ history' = Append(history,
                            Event(IF m.ok THEN "ActivityCompleted" ELSE "ActivityFailed",
                                  m.seq, m.name, m.val, now))
                     /\ pending' = pending \ {m.seq}
                     /\ queued' = TRUE
    /\ UNCHANGED <<orch, version, workerVersion, status, output, dispatched, now,
                   generation, lastPass, instances, deployedLogic>>
    /\ UNCHANGED <<entityVars, eventVars, researchVars>>

terminate_Any(reason) ==
    /\ status' = "Terminated"
    /\ output' = reason
    /\ history' = Append(history, Event("ExecutionTerminated", -1, orch, reason, now))
    /\ queued' = FALSE
    /\ UNCHANGED <<orch, version, workerVersion, pending, dispatched, now, generation,
                   lastPass>>
    /\ UNCHANGED <<entityVars, eventVars, researchVars, dispatcherVars>>

\* client.terminate(instance_id, reason) on a running instance
terminate(reason) ==
    /\ status = "Running"
    /\ status' = "Terminated"
    /\ output' = reason
    /\ history' = Append(history, Event("ExecutionTerminated", -1, orch, reason, now))
    /\ queued' = FALSE
    /\ UNCHANGED <<orch, version, workerVersion, pending, dispatched, now, generation,
                   lastPass>>
    /\ UNCHANGED <<entityVars, eventVars, researchVars, dispatcherVars>>

\* POST stop/{instanceId} with the id of the eternal orchestration
stop_eternal_orchestration ==
    /\ orch = Eternal
    /\ terminate(<<"Stopped by user request">>)

\* POST cancel/{instanceId} with the id of the operation's orchestration
cancel_operation ==
    /\ orch = AsyncHttp
    /\ terminate(<<"Operation cancelled by user request">>)

NextDispatch ==
    \/ DispatchPass
    \/ Redispatch
    \/ Execute
    \/ ExecuteFails
    \/ WorkerCrash
    \/ ReceiveCompletion
    \/ stop_eternal_orchestration
    \/ cancel_operation

SpecDispatch == InitDispatch /\ [][NextDispatch]_vars

(* --------------------------- several instances ------------------------- *)
MaxPasses == 2

\* two instances of fan_out_fan_in_orchestrator were started, the second with
\* one work item
InstanceIds == {InstanceId, "instance-2"}
InitInstances ==
    /\ NoInstance
    /\ EntityIdle
    /\ runKey = [r \in Runs |-> <<"my-counter">>]
    /\ raised = <<>>
    /\ workItems = <<>>
    /\ inbox = <<>>
    /\ deployedLogic = None
    /\ ResearchIdle
    /\ \E input \in [InstanceIds -> InputsOf(FanOut)] :
          /\ input["instance-2"] = SubSeq(WorkItemNames, 1, 1)
          /\ instances = [id \in InstanceIds |->
                             [orch |-> FanOut,
                              history |-> <<StartedEvent(FanOut, input[id], None, 0)>>,
                              status |-> "Running", output |-> <<>>, pending |-> {},
                              queued |-> TRUE, passes |-> <<>>]]

\* the executor takes a queued instance only when no replay pass of the
\* instance is in flight
PassFree_Always(inst) == TRUE
PassFree(inst) == inst.passes = <<>>

\* a replay pass of the instance begins: it works on the history as it is now
BeginPass(id) ==
    LET inst == instances[id]
    IN /\ inst.status = "Running"
       /\ inst.queued
       /\ PassFree(inst)
       /\ Len(inst.passes) < MaxPasses
       /\ instances' = [instances EXCEPT ![id].queued = FALSE,
                                         ![id].passes = Append(@, Len(inst.history))]
       /\ UNCHANGED <<instanceVars, entityVars, eventVars, researchVars, workItems, inbox, deployedLogic>>

\* the pass ends: its new actions are appended as Scheduled events and handed
\* out, or the instance ends; completions that arrived meanwhile stay in
\* history and keep the instance queued
EndPass(id) ==
    LET inst == instances[id]
    IN /\ inst.passes # <<>>
       /\ \E k \in DOMAIN inst.passes :
             LET at == SubSeq(inst.history, 1, inst.passes[k])
                 r == Replay(inst.orch, at, "3.0.0", "uuid-a")
                 left == SubSeq(inst.passes, 1, k - 1)
                            \o SubSeq(inst.passes, k + 1, Len(inst.passes))
                 scheduled == inst.history \o ScheduledEvents(r.new, 0)
             IN instances' =
                  [instances EXCEPT ![id] =
                      IF inst.status # "Running" THEN [inst EXCEPT !.passes = left]
                      ELSE IF r.outcome = "suspended"
                      THEN [inst EXCEPT !.passes = left, !.history = scheduled,
                                        !.pending = @ \cup SeqsOf(r.new)]
                      ELSE [inst EXCEPT
                              !.passes = left,
                              !.status = IF r.outcome = "return" THEN "Completed"
                                         ELSE "Failed",
                              !.output = r.val,
                              !.pending = @ \cup SeqsOf(r.new),
                              !.history = scheduled \o
                                  <<Event("OrchestrationCompleted", -1,
                                          IF r.outcome = "return" THEN "Completed"
                                          ELSE "Failed", r.val, 0)>>]]
       /\ UNCHANGED <<instanceVars, entityVars, eventVars, researchVars, workItems, inbox, deployedLogic>>

\* the completion r of an outstanding activity of the instance arrives, also
\* while a pass of the instance is in flight
Arrives(id, s, r) ==
    LET inst == instances[id]
        e == inst.history[Least(ScheduledAt(inst.history, s))]
    IN instances' = [instances EXCEPT
                        ![id].history = Append(@,
                            Event(IF r.ok THEN "ActivityCompleted" ELSE "ActivityFailed",
                                  s, e.name, r.val, 0)),
                        ![id].pending = @ \ {s},
                        ![id].queued = TRUE]
CompleteActivity(id) ==
    /\ instances[id].status = "Running"
    /\ \E s \in instances[id].pending :
          LET h == instances[id].history
              e == h[Least(ScheduledAt(h, s))]
          IN \E r \in Outcomes(instances[id].orch, e.name, e.val, 0) : Arrives(id, s, r)
    /\ UNCHANGED <<instanceVars, entityVars, eventVars, researchVars, workItems, inbox, deployedLogic>>
FailActivity(id) ==
    /\ instances[id].status = "Running"
    /\ \E s \in instances[id].pending :
          Arrives(id, s, [ok |-> FALSE, val |-> <<"Exception">>])
    /\ UNCHANGED <<instanceVars, entityVars, eventVars, researchVars, workItems, inbox, deployedLogic>>

NextInstances ==
    \E id \in InstanceIds :
        \/ BeginPass(id)
        \/ EndPass(id)
        \/ CompleteActivity(id)
        \/ FailActivity(id)

SpecInstances == InitInstances /\ [][NextInstances]_vars

(* --------------------------- replaced code ----------------------------- *)
\* the orchestrator functions a worker may have registered under the name of
\* the instance's function: both take a name as input and call say_hello first
Replaceable == {Chaining, Versioned}
ActivityNames(o) ==
    IF o = Chaining THEN {"say_hello", "process_greeting", "finalize_response"}
    ELSE {"say_hello", "say_goodbye", "send_notification"}

\* the clock of this specification stands still
InitReplace ==
    /\ orch \in Replaceable
    /\ version \in VersionTags
    /\ workerVersion = "3.0.0"
    /\ \E input \in Names : history = <<StartedEvent(orch, input, version, 0)>>
    /\ status = "Running"
    /\ output = <<>>
    /\ pending = {}
    /\ dispatched = <<>>
    /\ queued = TRUE
    /\ now = 0
    /\ generation = 0
    /\ lastPass = NoPass
    /\ EntityIdle
    /\ runKey = [r \in Runs |-> <<"my-counter">>]
    /\ raised = <<>>
    /\ workItems = <<>>
    /\ inbox = <<>>
    /\ instances = <<>>
    /\ deployedLogic = orch
    /\ ResearchIdle

\* the worker is restarted with the other function registered under the name
Replace ==
    /\ \E o \in Replaceable \ {deployedLogic} : deployedLogic' = o
    /\ UNCHANGED <<instanceVars, entityVars, eventVars, researchVars, workItems, inbox, instances>>

\* a replay pass runs the function that is registered now over the history
ReplacedPass ==
    /\ status = "Running"
    /\ queued
    /\ \E uuid \in Uuids : ApplyPass(Replay(deployedLogic, history, workerVersion, uuid))
    /\ UNCHANGED <<orch, version, workerVersion, now>>
    /\ UNCHANGED <<entityVars, eventVars, researchVars, dispatcherVars>>

\* a worker runs a dispatched activity the deployed code has registered
ReplacedActivityComplete ==
    /\ status = "Running"
    /\ \E s \in pending :
          LET e == history[Least(ScheduledAt(history, s))]
          IN /\ e.name \in ActivityNames(deployedLogic)
             /\ \E r \in Outcomes(deployedLogic, e.name, e.val, now) :
                   history' = Append(history,
                       Event(IF r.ok THEN "ActivityCompleted" ELSE "ActivityFailed",
                             s, e.name, r.val, now))
                   /\ pending' = pending \ {s}
    /\ queued' = TRUE
    /\ UNCHANGED <<orch, version, workerVersion, status, output, dispatched, now,
                   generation, lastPass>>
    /\ UNCHANGED <<entityVars, eventVars, researchVars, dispatcherVars>>

NextReplace == Replace \/ ReplacedPass \/ ReplacedActivityComplete \/ ActivityFail

SpecReplace == InitReplace /\ [][NextReplace]_vars

(* --------------------------- the research agent ------------------------ *)
Returns(value, calls) == [outcome |-> "return", val |-> value, llm_calls |-> calls]
Raises(error, calls) == [outcome |-> "raise", val |-> PyStr(error), llm_calls |-> calls]

\* what the model may answer: output_text, and what json.loads makes of it
\* (<<>> when it raises JSONDecodeError)
Answer(output_text, parsed) == [text |-> output_text, json |-> parsed]
Responses ==
    << Answer("{\"should_continue\": true}",
              <<PyDict([should_continue |-> PyBool(TRUE)])>>),
       Answer("{\"should_continue\": false}",
              <<PyDict([should_continue |-> PyBool(FALSE)])>>),
       Answer("{\"should_continue\": \"yes\"}",
              <<PyDict([should_continue |-> PyStr("yes")])>>),
       Answer("{\"decision\": \"continue\"}",
              <<PyDict([decision |-> PyStr("continue")])>>),
       Answer("[\"transformer attention\", \"neural network optimization\"]",
              <<PyList(<<PyStr("transformer attention"),
                         PyStr("neural network optimization")>>)>>),
       Answer("[3, \"neural network pruning\"]",
              <<PyList(<<PyInt("3"), PyStr("neural network pruning")>>)>>),
       Answer("[null]", <<PyList(<<PyNone>>)>>),
       Answer("[]", <<PyList(<<>>)>>),
       Answer("\"single query\"", <<PyStr("single query")>>),
       Answer("true", <<PyBool(TRUE)>>),
       Answer("Here is my answer: continue", <<>>),
       Answer("", <<>>) >>

\* call_llm: an empty output_text raises ValueError
call_llm_fails(response) == response.text = ""

identify_research_gaps_activity_Last(activity_input, response) ==
    IF call_llm_fails(response) THEN Raises("ValueError", 1)
    ELSE IF response.json = <<>> THEN Returns(PyNone, 1)
    ELSE LET parsed == response.json[1]
         IN IF parsed.t # "list" THEN Returns(PyNone, 1)
            ELSE LET queries == [i \in DOMAIN parsed.v |-> PyToStr(parsed.v[i])]
                 IN IF Len(queries) > 0 THEN Returns(queries[Len(queries)], 1)
                    ELSE Returns(PyNone, 1)

\* the prompt is built from topic, current_findings and iteration; the answer
\* is whatever the model gives
identify_research_gaps_activity(activity_input, response) ==
    IF call_llm_fails(response) THEN Raises("ValueError", 1)
    ELSE IF response.json = <<>> THEN Returns(PyNone, 1)
    ELSE LET parsed == response.json[1]
         IN IF parsed.t # "list" THEN Returns(PyNone, 1)
            ELSE LET queries == [i \in DOMAIN parsed.v |-> PyToStr(parsed.v[i])]
                 IN IF Len(queries) > 0 THEN Returns(queries[1], 1)
                    ELSE Returns(PyNone, 1)

decide_continuation_activity(activity_input, response) ==
    IF activity_input.current_iteration >= activity_input.max_iterations
    THEN Returns(PyBool(FALSE), 0)
    ELSE IF call_llm_fails(response) THEN Raises("ValueError", 1)
    ELSE LET json_response == IF response.json = <<>> THEN PyDict(<<>>)
                              ELSE response.json[1]
         IN IF json_response.t # "dict" THEN Raises("AttributeError", 1)
            ELSE IF "should_continue" \in DOMAIN json_response.v
                 THEN Returns(json_response.v.should_continue, 1)
                 ELSE Returns(PyBool(FALSE), 1)

InitResearch ==
    /\ NoInstance
    /\ EntityIdle
    /\ runKey = [r \in Runs |-> <<"my-counter">>]
    /\ raised = <<>>
    /\ DispatcherIdle
    /\ \E n \in 0..MaxIter :
          research = [pc |-> "decide", current_iteration |-> 0, max_iterations |-> n,
                      rounds |-> 0, llm_calls |-> 0]
    /\ decided = NoCall
    /\ follow_up = NoCall
    /\ llm = LlmLoaded(TRUE, TRUE)

\* the loop asks whether to go on, and goes on only when the answer is True
DecideContinuation ==
    /\ research.pc = "decide"
    /\ \E i \in DOMAIN Responses :
          LET activity_input == [topic |-> "deep learning",
                                 current_iteration |-> research.current_iteration,
                                 max_iterations |-> research.max_iterations]
              r == decide_continuation_activity(activity_input, Responses[i])
          IN /\ decided' = [input |-> <<activity_input>>,
                            response |-> IF r.llm_calls = 0 THEN <<>> ELSE <<Responses[i]>>,
                            result |-> <<r>>]
             /\ research' = [research EXCEPT
                    !.llm_calls = @ + r.llm_calls,
                    !.pc = IF r.outcome = "return" /\ r.val = PyBool(TRUE)
                           THEN "round" ELSE "done"]
    /\ UNCHANGED <<instanceVars, entityVars, eventVars, dispatcherVars, follow_up, llm>>

\* one round: the next query is asked for, and current_iteration goes up by one
ResearchRound ==
    /\ research.pc = "round"
    /\ \E i \in DOMAIN Responses :
          LET activity_input == [topic |-> "deep learning",
                                 iteration |-> research.current_iteration]
              r == identify_research_gaps_activity(activity_input, Responses[i])
          IN /\ follow_up' = [input |-> <<activity_input>>,
                              response |-> <<Responses[i]>>,
                              result |-> <<r>>]
             /\ research' = [research EXCEPT
                    !.llm_calls = @ + r.llm_calls,
                    !.current_iteration = @ + 1,
                    !.rounds = @ + 1,
                    !.pc = "decide"]
    /\ UNCHANGED <<instanceVars, entityVars, eventVars, dispatcherVars, decided, llm>>

NextResearch == DecideContinuation \/ ResearchRound

SpecResearch == InitResearch /\ [][NextResearch]_vars

\* calls of call_llm a worker thread makes
MaxCalls == 2

\* one step of thread t in _get_client. The function takes no lock: between
\* the steps of one thread any other thread may take steps of its own.
\* idle: call_llm calls _get_client, which tests `_client is not None`;
\* endpoint: it reads AZURE_OPENAI_ENDPOINT and raises RuntimeError without it;
\* construct: it constructs an OpenAI object, with the API key or with the
\* Entra ID token provider; assign: it stores the object in _client;
\* return: it returns what _client holds
_get_client(t) ==
    LET f == llm.frame[t]
        Jump(pc) == [llm EXCEPT !.frame[t].pc = pc]
    IN /\ CASE f.pc = "idle" ->
                  /\ f.calls < MaxCalls
                  /\ llm' = [llm EXCEPT
                         !.frame[t].calls = @ + 1,
                         !.frame[t].pc = IF llm.client # <<>> THEN "return" ELSE "endpoint"]
            [] f.pc = "endpoint" ->
                  IF llm.AZURE_OPENAI_ENDPOINT
                  THEN llm' = Jump("construct")
                  ELSE llm' = [llm EXCEPT
                         !.frame[t].pc = "idle",
                         !.frame[t].outcomes =
                             Append(@, [outcome |-> "raise", client |-> 0])]
            [] f.pc = "construct" ->
                  llm' = [llm EXCEPT
                      !.constructed =
                          Append(@, IF llm.AZURE_OPENAI_API_KEY THEN "api_key"
                                    ELSE "token_provider"),
                      !.frame[t].made = Len(llm.constructed) + 1,
                      !.frame[t].pc = "assign"]
            [] f.pc = "assign" ->
                  llm' = [llm EXCEPT !.client = <<f.made>>, !.frame[t].pc = "return"]
            [] f.pc = "return" ->
                  llm' = [llm EXCEPT
                      !.frame[t].pc = "idle",
                      !.frame[t].outcomes =
                          Append(@, [outcome |-> "return", client |-> llm.client[1]])]
       /\ UNCHANGED <<research, decided, follow_up>>
       /\ UNCHANGED <<instanceVars, entityVars, eventVars, dispatcherVars>>

InitClient ==
    /\ NoInstance
    /\ EntityIdle
    /\ runKey = [r \in Runs |-> <<"my-counter">>]
    /\ raised = <<>>
    /\ DispatcherIdle
    /\ research = [pc |-> "idle", current_iteration |-> 0, max_iterations |-> 0,
                   rounds |-> 0, llm_calls |-> 0]
    /\ decided = NoCall
    /\ follow_up = NoCall
    /\ \E endpoint, api_key \in BOOLEAN : llm = LlmLoaded(endpoint, api_key)

NextClient == \E t \in Threads : _get_client(t)

\* the worker's threads run activities that call call_llm
SpecClient == InitClient /\ [][NextClient]_vars

(* ------------------------- reading the history ------------------------- *)
ScheduledEventsIn(h) ==
    LET IsSched(e) == e.type = "ActivityScheduled" IN SelectSeq(h, IsSched)
ScheduledNames(h) ==
    LET es == ScheduledEventsIn(h) IN [i \in DOMAIN es |-> es[i].name]
Input == history[1].val.input
CompleteHistory == status \in {"Completed", "Failed"}

(* ------------------------------ claims --------------------------------- *)

\* C1: replay idempotence. Over a complete history, a replay pass of any of the
\* orchestrator functions asks for no new action (nothing is dispatched), and a
\* second pass gives the same empty set of new actions and the same result,
\* which is the recorded result of the instance.
C1_ReplayIdempotent ==
    CompleteHistory =>
        \A u1 \in Uuids, u2 \in Uuids :
            LET p1 == Replay(orch, history, workerVersion, u1)
                p2 == Replay(orch, history, workerVersion, u2)
            IN /\ p1.new = <<>>
               /\ p2.new = <<>>
               /\ p1.outcome = (IF status = "Completed" THEN "return" ELSE "raise")
               /\ p2.outcome = p1.outcome
               /\ p1.val = output
               /\ p2.val = p1.val

C1_Witness ==
    /\ orch = Chaining
    /\ status = "Completed"
    /\ ScheduledNames(history) = <<"say_hello", "process_greeting", "finalize_response">>
    /\ Replay(orch, history, workerVersion, "uuid-b").new = <<>>

\* C2: determinism of the orchestrator functions. Every action a replay pass
\* requests at a position history already records has the name and the input
\* recorded there: the function draws nothing from the wall clock, randomness
\* or ambient I/O.
C2_ReplayRequestsSameActions ==
    \A i \in DOMAIN lastPass.requested :
        LET it == lastPass.requested[i]
            at == ScheduledAt(lastPass.at, it.seq)
        IN at # {} =>
              /\ lastPass.at[Least(at)].name = it.name
              /\ lastPass.at[Least(at)].val = it.input

(* ---- saga ---- *)
BookNames == {"book_flight", "book_hotel", "book_car"}
CancelNames == {"cancel_flight", "cancel_hotel", "cancel_car"}
EventsNamed(h, types, names) ==
    LET Is(e) == e.type \in types /\ e.name \in names IN SelectSeq(h, Is)
\* bookings that completed, the booking that failed, cancels scheduled and resolved
BookingsDone == EventsNamed(history, {"ActivityCompleted"}, BookNames)
BookingsFailed == EventsNamed(history, {"ActivityFailed"}, BookNames)
CancelsScheduled == EventsNamed(history, {"ActivityScheduled"}, CancelNames)
CancelsResolved == EventsNamed(history, CompletionTypes, CancelNames)
\* the compensations of the first k bookings, last booking first
ExpectedCancels(k) == [j \in 1..k |-> CancelOf(k + 1 - j)]
IsPrefix(a, b) == Len(a) <= Len(b) /\ a = SubSeq(b, 1, Len(a))

\* C3: saga compensation order. When a booking step fails after k bookings
\* completed, the cancel activities scheduled are the compensations of those k
\* bookings, each once, one at a time, last booking first, each with the result
\* of its booking as input; all k are scheduled by the time the saga returns;
\* the failed step is not compensated; with no failed booking nothing is cancelled.
C3_CompensationOrder ==
    orch = Saga =>
        LET k == Len(BookingsDone)
            expected == IF Len(BookingsFailed) = 0 THEN <<>> ELSE ExpectedCancels(k)
        IN /\ IsPrefix([i \in DOMAIN CancelsScheduled |-> CancelsScheduled[i].name],
                       expected)
           /\ \A i \in DOMAIN CancelsScheduled :
                 CancelsScheduled[i].val = BookingsDone[k + 1 - i].val
           /\ Len(CancelsScheduled) <= Len(CancelsResolved) + 1
           /\ Cardinality(pending) <= 1
           /\ status = "Completed" => Len(CancelsScheduled) = Len(expected)

C3_Witness ==
    /\ orch = Saga
    /\ status = "Completed"
    /\ Len(BookingsFailed) = 1 /\ BookingsFailed[1].name = "book_car"
    /\ [i \in DOMAIN CancelsScheduled |-> CancelsScheduled[i].name]
          = <<"cancel_hotel", "cancel_flight">>

C5_CompensationBestEffort ==
    orch = Saga =>
        /\ status # "Failed"
        /\ \A i \in DOMAIN CancelsScheduled, j \in DOMAIN CancelsScheduled :
              CancelsScheduled[i].name = CancelsScheduled[j].name => i = j
        /\ (status = "Completed" /\ Len(BookingsFailed) = 1) =>
              /\ Len(output.compensations) = Len(BookingsDone)
              /\ [i \in DOMAIN CancelsScheduled |-> CancelsScheduled[i].name]
                    = ExpectedCancels(Len(BookingsDone))
              /\ \A i \in DOMAIN output.compensations :
                    output.compensations[i] =
                        (IF CancelsResolved[i].type = "ActivityFailed"
                         THEN <<"Compensation failed: ">> \o CancelsResolved[i].val
                         ELSE CancelsResolved[i].val)

C5_Witness ==
    /\ orch = Saga
    /\ status = "Completed"
    /\ Len(CancelsResolved) = 2
    /\ CancelsResolved[1].name = "cancel_hotel" /\ CancelsResolved[1].type = "ActivityFailed"
    /\ CancelsResolved[2].name = "cancel_flight" /\ CancelsResolved[2].type = "ActivityCompleted"
    /\ output.compensations[1][1] = "Compensation failed: "

(* ---- fan-out/fan-in ---- *)
\* number of activities the fan-out submits
ChildCount ==
    IF orch = FanOut THEN Len(Input)
    ELSE Get(Input, "activity_count", DEFAULT_ACTIVITY_COUNT)
\* the list the task_all yield evaluates to
FanInList == YieldValue("all", history, [i \in 1..ChildCount |-> i - 1], 0).val
AggregateScheduled ==
    {i \in DOMAIN history :
        history[i].type = "ActivityScheduled" /\ history[i].name = "aggregate_results"}

\* C6: fan-out order preservation. Whatever the order of the completions, the
\* list task_all gives has length N and its i-th element is the result of the
\* i-th submitted activity (the one for the i-th item), and that list is what
\* is passed on to aggregation.
C6_FanOutOrderPreserved ==
    /\ orch = FanOut =>
          \A a \in AggregateScheduled :
              /\ history[a].val = FanInList
              /\ Len(history[a].val) = Len(Input)
              /\ \A i \in 1..Len(Input) :
                    /\ history[a].val[i] = ResultOf(history, dispatched[i].seq).val
                    /\ dispatched[i].input = Input[i]
                    /\ history[a].val[i].item = Input[i]
    /\ (orch = LargePayload /\ status = "Completed") =>
          /\ Len(FanInList) = ChildCount
          /\ output.items_processed = ChildCount
          /\ \A i \in 1..ChildCount :
                /\ FanInList[i] = ResultOf(history, dispatched[i].seq).val
                /\ dispatched[i].input.task_id = i - 1
                /\ FanInList[i].task_id = i - 1
                /\ output.individual_sizes[i] = FanInList[i].size_kb

\* the second item's activity completes before the first one's
C6_Witness ==
    /\ orch = FanOut
    /\ Len(Input) = 2
    /\ AggregateScheduled # {}
    /\ Least(CompletionsOf(history, 1)) < Least(CompletionsOf(history, 0))
    /\ history[Least(AggregateScheduled)].val[1].item = "Item1"
    /\ history[Least(AggregateScheduled)].val[2].item = "Item2"

\* C7: fan-in barrier. All N process_work_item activities are scheduled by the
\* first pass, in one suspension (they may all be outstanding at once), and
\* aggregate_results is scheduled only after each of them has a completion
\* event in history, never while one of them is pending.
C7_FanInBarrier ==
    orch = FanOut =>
        LET N == Len(Input)
            work == EventsNamed(history, {"ActivityScheduled"}, {"process_work_item"})
        IN /\ Len(work) = (IF lastPass.outcome = "none" THEN 0 ELSE N)
           /\ \A i \in DOMAIN work : history[1 + i] = work[i] /\ work[i].seq = i - 1
           /\ \A a \in AggregateScheduled :
                 /\ \A s \in 0..(N - 1) : \E c \in CompletionsOf(history, s) : c < a
                 /\ history[a].seq = N
                 /\ pending \subseteq {N}

C7_Witness ==
    /\ orch = FanOut
    /\ Len(Input) = 2
    /\ pending = {0, 1}
    /\ AggregateScheduled = {}

(* ---- eternal orchestration ---- *)
StartedCount == Len(EventsNamed(history, {"OrchestrationStarted"}, Orchestrators))

\* C8: continue-as-new bounding. The history of a generation never holds more
\* than 6 events, whatever the number of continuations before it, and after
\* continue_as_new it is a single OrchestrationStarted carrying the new input.
C8_ContinueAsNewBounded ==
    orch = Eternal =>
        /\ Len(history) <= 6
        /\ StartedCount = 1
        /\ history[1].type = "OrchestrationStarted"
        /\ Get(Input, "current_iteration", 1) = generation + 1
        /\ \A i \in DOMAIN history : history[i].ts >= history[1].ts
        /\ lastPass.outcome = "continue_as_new" =>
              /\ Len(history) = 1
              /\ Input = lastPass.val
              /\ pending = {}

C8_Witness ==
    /\ orch = Eternal
    /\ generation = 2
    /\ lastPass.outcome = "continue_as_new"
    /\ Len(lastPass.at) = 5
    /\ Len(history) = 1

(* ---- versioning ---- *)
\* every activity name the instance ever asked for, scheduled or dispatched
NamesAskedFor ==
    {history[i].name : i \in {j \in DOMAIN history : history[j].type = "ActivityScheduled"}}
    \cup {lastPass.requested[i].name : i \in DOMAIN lastPass.requested}
    \cup {dispatched[i].name : i \in DOMAIN dispatched}

\* C9: versioning stability. An instance scheduled with version "1.0.0" never
\* schedules say_goodbye or send_notification, at any pass and whatever version
\* the worker runs, and one scheduled with "2.0.0" never schedules send_notification.
C9_VersionStability ==
    orch = Versioned =>
        /\ version = "1.0.0" =>
              NamesAskedFor \cap {"say_goodbye", "send_notification"} = {}
        /\ version = "2.0.0" => "send_notification" \notin NamesAskedFor

C9_Witness ==
    /\ orch = Versioned
    /\ version = "1.0.0"
    /\ workerVersion = "2.0.0"
    /\ status = "Completed"
    /\ ScheduledNames(history) = <<"say_hello">>

\* C10: version tag immutability. The tag recorded for the instance is the one
\* given to schedule, the value the function reads as ctx.version is that tag
\* at every pass, whatever the worker runs, and the "version" field of the
\* output is that tag.
C10_VersionTagFixed ==
    orch = Versioned =>
        /\ history[1].val.version = version
        /\ lastPass.outcome # "none" => lastPass.version = version
        /\ status = "Completed" => output.version = version

C10_Witness ==
    /\ orch = Versioned
    /\ version = "2.0.0"
    /\ workerVersion = "1.0.0"
    /\ status = "Completed"
    /\ output.version = "2.0.0"
    /\ ScheduledNames(history) = <<"say_hello", "say_goodbye">>

(* ---- entities ---- *)
\* what an operation is meant to add to the counter
Delta(op) ==
    CASE op.operation = "add" -> op.input
      [] op.operation = "subtract" -> 0 - op.input
      [] OTHER -> 0
RECURSIVE SumDelta(_)
SumDelta(ops) == IF ops = <<>> THEN 0 ELSE Delta(ops[1]) + SumDelta(Tail(ops))
CounterValue(k) == get_state(entityState[k], 0)
Committing(w) == running[w] # Idle /\ running'[w] = Idle
AppliedOps(k) == SubSeq(opQueue[k], 1, lastApplied[k])

\* C11: entity exactly-once application. The commit of an operation delivered
\* again under a sequence number that was applied already leaves the state of
\* its key and the last-applied number as they are; the commit of the next
\* operation changes the counter by that operation's amount; so the counter of
\* a key is always the sum of the operations applied to it, each counted once,
\* whatever deliveries were repeated.
C11_EntityExactlyOnce ==
    /\ [](\A k \in EntityKeys : CounterValue(k) = SumDelta(AppliedOps(k)))
    /\ [][\A w \in Workers : Committing(w) =>
             LET e == running[w]
                 k == e.key
             IN IF e.op.seq <= lastApplied[k]
                THEN /\ entityState'[k] = entityState[k]
                     /\ lastApplied'[k] = lastApplied[k]
                ELSE lastApplied'[k] # lastApplied[k] =>
                        /\ lastApplied'[k] = e.op.seq
                        /\ get_state(entityState'[k], 0) = CounterValue(k) + Delta(e.op)]_vars

\* 'add' 10 of a counter_workflow was applied, delivered again and dropped
C11_Witness ==
    LET k == <<"my-counter", "-orch-", 1>>
    IN /\ lastCommit = "duplicate"
       /\ lastApplied[k] = 1
       /\ opQueue[k][1].operation = "add"
       /\ opQueue[k][1].input = 10
       /\ entityState[k] = <<10>>
       /\ \A j \in EntityKeys \ {k} : lastApplied[j] = 0

\* what the client runs and the orchestrations have sent to key k so far
RECURSIVE SumOver(_, _, _)
SumOver(S, f(_, _), k) ==
    IF S = {} THEN 0
    ELSE LET x == CHOOSE y \in S : TRUE IN f(x, k) + SumOver(S \ {x}, f, k)
RunSent(r, k) ==
    IF runKey[r] # k THEN 0
    ELSE (IF runPc[r] >= 1 THEN 100 ELSE 0) - (IF runPc[r] >= 2 THEN 25 ELSE 0)
WorkflowSent(id, k) ==
    IF workflow[id].key = k /\ workflow[id].sent > 0 THEN 10 + 5 - 3 ELSE 0
SentTo(k) == SumOver(Runs, RunSent, k) + SumOver(WorkflowIds, WorkflowSent, k)
WritersOf(k) == {w \in Workers : running[w] # Idle /\ running[w].key = k}

ApprovalEvents == RaisedEvents(history, "approval_response")
SendDone ==
    \E i \in DOMAIN history : history[i].type = "ActivityCompleted" /\ history[i].seq = 0
ProcessScheduled ==
    LET P(e) == e.type = "ActivityScheduled" /\ e.name = "process_approval"
    IN SelectSeq(history, P)
\* a replay pass has run over all of history
PassedOver == status # "Running" \/ ~queued
Copies(id) ==
    Cardinality({i \in DOMAIN history : history[i].type = "EventRaised" /\ history[i].seq = id})

\* C13: external event buffering. Every event raised for the running instance
\* is in its history exactly once, however often its message arrived; and once
\* send_approval_request has completed and a replay pass has run, an
\* 'approval_response' event that is in history, raised before or after the
\* wait point was reached, has resolved the wait: process_approval was
\* scheduled with the payload of that event, and only once with a decision.
C13_EventBuffered ==
    /\ \A i \in DOMAIN raised : Copies(raised[i].id) = 1
    /\ (PassedOver /\ SendDone /\ ApprovalEvents # <<>>) =>
          /\ ProcessScheduled # <<>>
          /\ ProcessScheduled[1].val.approval_response = ApprovalEvents[1].val
          /\ Cardinality({i \in DOMAIN ProcessScheduled :
                             ProcessScheduled[i].val.status # "error"}) = 1

\* the approval was raised while send_approval_request was running, its message
\* arrived twice, and the instance completed with the approval
C13_Witness ==
    /\ status = "Completed"
    /\ output.status = "approved"
    /\ \E i \in DOMAIN history, j \in DOMAIN history :
          /\ i < j
          /\ history[i].type = "EventRaised"
          /\ history[i].name = "approval_response"
          /\ history[j].type = "ActivityCompleted"
          /\ history[j].seq = 0
    /\ \E i \in DOMAIN raised :
          raised[i].name = "approval_response" /\ raised[i].deliveries = 2

EventNames == {"approval_response", "ApprovalEvent"}
MessagesNamed(msgs, name) == LET Match(m) == m.name = name IN SelectSeq(msgs, Match)

ResolvedSeqs(h) == {h[i].seq : i \in {j \in DOMAIN h : h[j].type \in CompletionTypes}}
Received(msgs, msgs2) == {inbox[run] : run \in DOMAIN msgs \ DOMAIN msgs2}

\* C15: pending task single resolution. Every sequence number history holds a
\* completion of has exactly one completion (or failure) event; a completion
\* message that arrives for a sequence number already resolved changes neither
\* the history nor the instance; and within a generation the result the
\* executor reads for a resolved task is the same after every later step, so
\* every later replay observes the value recorded first.
C15_PendingTaskSingleResolution ==
    /\ [](\A s \in ResolvedSeqs(history) : Cardinality(CompletionsOf(history, s)) = 1)
    /\ [][\A m \in Received(inbox, inbox') :
             (m.gen = generation /\ m.seq \in ResolvedSeqs(history))
                 => UNCHANGED <<history, status, output, pending, queued>>]_vars
    /\ [][generation' = generation =>
             \A s \in ResolvedSeqs(history) :
                 /\ s \in ResolvedSeqs(history')
                 /\ ResultOf(history', s) = ResultOf(history, s)]_vars

\* the first activity of a running instance was run twice, both completions
\* were received, one is in history, and a replay pass has read it
C15_Witness ==
    /\ status = "Running"
    /\ <<generation, 0>> \in DOMAIN workItems
    /\ workItems[<<generation, 0>>].received = 2
    /\ Cardinality(CompletionsOf(history, 0)) = 1
    /\ CompletionsOf(lastPass.at, 0) # {}

HandedOut(w) ==
    Cardinality({i \in DOMAIN dispatched :
                    dispatched[i].seq = w.seq /\ dispatched[i].name = w.name})

\* C17: at-least-once dispatch without duplicate history. A work item that is
\* handed out again (it was lost, or its worker crashed before acknowledging)
\* keeps its sequence number; whatever the number of handouts and of
\* executions, history holds exactly one Scheduled event and at most one
\* completion event for the sequence number of every work item of the
\* current generation.
C17_AtLeastOnceNoDuplicateHistory ==
    \A id \in DOMAIN workItems :
        id[1] = generation =>
            /\ Cardinality(ScheduledAt(history, id[2])) = 1
            /\ Cardinality(CompletionsOf(history, id[2])) <= 1
            /\ workItems[id].executions <= workItems[id].handed
            /\ generation = 0 => HandedOut(workItems[id]) = workItems[id].handed

\* a worker crashed before acknowledging, the work item was handed out again,
\* run a second time, and its one completion is in history
C17_Witness ==
    \E id \in DOMAIN workItems :
        /\ id[1] = generation
        /\ workItems[id].handed = 2
        /\ workItems[id].executions = 2
        /\ workItems[id].received = 1
        /\ inbox = <<>>
        /\ Cardinality(ScheduledAt(history, id[2])) = 1
        /\ Cardinality(CompletionsOf(history, id[2])) = 1

IsTerminated(h) == \E i \in DOMAIN h : h[i].type = "ExecutionTerminated"

\* C18: termination. Once terminate was applied to a running instance, its
\* status is Terminated and it is not queued; from then on no step changes
\* its status, output, history, generation or the work items handed out, so
\* nothing more is dispatched, no continue-as-new generation starts, and the
\* completion of an activity that was in flight leaves the instance as it was.
C18_Termination ==
    /\ [](IsTerminated(history) <=> status = "Terminated")
    /\ [](status = "Terminated" =>
             /\ ~queued
             /\ output \in {<<"Stopped by user request">>,
                            <<"Operation cancelled by user request">>})
    /\ [][status = "Terminated" =>
             UNCHANGED <<status, output, history, pending, queued, dispatched,
                         generation, lastPass>>]_vars

\* an eternal orchestration was stopped in its second generation while an
\* activity was in flight, and the activity's completion has arrived since
C18_Witness ==
    /\ orch = Eternal
    /\ status = "Terminated"
    /\ generation = 1
    /\ \E id \in DOMAIN workItems :
          /\ id[1] = generation
          /\ id[2] \in pending
          /\ workItems[id].received >= 1

(* ---------------------- claims about several instances ----------------- *)
\* C16: per-instance serialization. No instance ever has more than one replay
\* pass in flight, although completions of its outstanding activities arrive
\* while a pass is in flight; a pass begins only when none of the instance is
\* in flight; and no sequence number of an instance is scheduled twice.
C16_PerInstanceSerialization ==
    /\ [](\A id \in InstanceIds :
             /\ Len(instances[id].passes) <= 1
             /\ \A s \in 0..(MaxItems + 1) :
                   Cardinality(ScheduledAt(instances[id].history, s)) <= 1)
    /\ [][\A id \in InstanceIds :
             Len(instances'[id].passes) > Len(instances[id].passes)
                 => instances[id].passes = <<>>]_vars

\* both instances have a pass in flight; the completions of two activities
\* of instance-1 have arrived, the second since its pass began, and the
\* instance is queued again
C16_Witness ==
    /\ \A id \in InstanceIds : Len(instances[id].passes) = 1
    /\ LET inst == instances[InstanceId]
       IN /\ Len(inst.history) = inst.passes[1] + 1
          /\ inst.history[Len(inst.history)].type \in CompletionTypes
          /\ inst.history[Len(inst.history) - 1].type \in CompletionTypes
          /\ inst.queued

(* ------------------------ claims about failures ------------------------ *)
FailedEvents(h) == {i \in DOMAIN h : h[i].type = "ActivityFailed"}
Uncaught == {Chaining, OrderProcessing}

\* C19: activity failure handling. In function_chaining_orchestrator and
\* order_processing_orchestration, which catch nothing, once an activity's
\* ActivityFailed event is in history no activity of a later sequence number is
\* ever scheduled, the pass that reads the event ends the instance Failed with
\* the activity's error, and the instance ends Failed for no other reason. In
\* travel_booking_saga, which catches the error, the instance never ends
\* Failed: a booking that fails is recorded as ActivityFailed, and the instance
\* ends Completed with status 'failed' exactly when an activity failed.
C19_ActivityFailureHandling ==
    /\ orch \in Uncaught =>
          /\ \A i \in FailedEvents(history) :
                /\ \A j \in DOMAIN history :
                      history[j].type = "ActivityScheduled"
                          => history[j].seq <= history[i].seq
                /\ status \in {"Running", "Failed"}
                /\ status = "Failed" => output = history[i].val
                /\ Len(lastPass.at) >= i
                      => lastPass.outcome = "raise" /\ status = "Failed"
          /\ status = "Failed" => FailedEvents(history) # {}
    /\ orch = Saga =>
          /\ status # "Failed"
          /\ \A i \in DOMAIN history :
                (/\ history[i].type \in CompletionTypes
                 /\ history[i].name = "book_car"
                 /\ Get(history[1].val.input, "simulate_car_failure", FALSE))
                    => history[i].type = "ActivityFailed"
          /\ status = "Completed"
                => (output.status = "failed" <=> FailedEvents(history) # {})

\* process_payment of an order failed after validate_order had completed: the
\* instance ended Failed and ship_order was never scheduled
C19_Witness ==
    /\ orch = OrderProcessing
    /\ status = "Failed"
    /\ \E i \in FailedEvents(history) : history[i].seq = 1
    /\ CompletionsOf(history, 0) # {}
    /\ ScheduledAt(history, 2) = {}

(* ------------------------ claims about replaced code ------------------- *)
\* the requests of pass p that history records under another activity name
Mismatched(p) ==
    {i \in DOMAIN p.requested :
        \E j \in DOMAIN p.at :
            /\ p.at[j].type = "ActivityScheduled"
            /\ p.at[j].seq = p.requested[i].seq
            /\ p.at[j].name # p.requested[i].name}

\* C20: determinism violation detection. A replay pass ends with the outcome
\* 'nondeterminism' exactly when it requested, under some sequence number, an
\* activity of another name than the Scheduled event history records there;
\* its error is DeterminismViolation and the instance fails with that error;
\* the request that did not match is the last one the pass made, so no stored
\* result was fed to it; and the pass scheduled nothing, so history holds the
\* Scheduled events it held before the pass.
C20_DeterminismViolationDetected ==
    lastPass.outcome # "none" =>
        /\ (Mismatched(lastPass) # {}) <=> (lastPass.outcome = "nondeterminism")
        /\ Mismatched(lastPass) # {} =>
              /\ lastPass.val = <<"DeterminismViolation">>
              /\ Mismatched(lastPass) = {Len(lastPass.requested)}
              /\ lastPass.new = <<>>
              /\ status = "Failed"
              /\ output = <<"DeterminismViolation">>
              /\ ScheduledEventsIn(history) = ScheduledEventsIn(lastPass.at)
              /\ pending = {s \in pending : CompletionsOf(lastPass.at, s) = {}}

\* function_chaining_orchestrator was replaced by versioned_orchestration
\* after process_greeting was scheduled: the pass asked for say_goodbye there
C20_Witness ==
    /\ orch = Chaining
    /\ deployedLogic = Versioned
    /\ lastPass.outcome = "nondeterminism"
    /\ Len(lastPass.requested) = 2
    /\ lastPass.requested[2].name = "say_goodbye"
    /\ \E i \in ScheduledAt(lastPass.at, 1) : lastPass.at[i].name = "process_greeting"
    /\ status = "Failed"

(* ------------------------ claims about the approval wait --------------- *)
\* C21: the approval wait has a timeout. Once send_approval_request has
\* completed, the instance ends in the end, whether or not an
\* 'approval_response' event is ever raised; and when it completes without
\* one, process_approval took its timeout branch.
C21_ApprovalWaitTimesOut ==
    /\ SendDone ~> (status # "Running")
    /\ []((status = "Completed" /\ ApprovalEvents = <<>>)
             => "timeout_reason" \in DOMAIN output)

(* ------------------------ claims about monitoring ---------------------- *)
Checks ==
    LET C(e) == e.type = "ActivityScheduled" /\ e.name = "check_job_status"
    IN SelectSeq(history, C)

\* C22: monitoring terminates. Under fair scheduling every instance of
\* monitoring_job_orchestrator ends, and it ends Completed unless an activity
\* failed. At most 4 check_job_status activities are ever scheduled, the k-th
\* with check_count = k-1; a Completed instance has final_status Completed or
\* Timeout, Completed exactly after 4 checks, and checks_performed is the
\* number of check_job_status activities scheduled.
C22_MonitoringTerminates ==
    /\ <>(status # "Running")
    /\ [](Len(Checks) <= 4)
    /\ [](\A k \in DOMAIN Checks : Checks[k].val.check_count = k - 1)
    /\ [](status = "Failed" => FailedEvents(history) # {})
    /\ [](status = "Completed" =>
             /\ output.final_status \in {"Completed", "Timeout"}
             /\ output.final_status = "Completed" <=> Len(Checks) = 4
             /\ output.checks_performed = Len(Checks))

\* a job watched with a timeout of 30 seconds completed at the fourth check
C22_Witness ==
    /\ orch = Monitoring
    /\ status = "Completed"
    /\ output.final_status = "Completed"
    /\ output.checks_performed = 4
    /\ Len(Checks) = 4
    /\ history[1].val.input.timeout_seconds = 30

\* a job watched with a timeout of one second timed out before the fourth check
C22_WitnessTimeout ==
    /\ orch = Monitoring
    /\ status = "Completed"
    /\ output.final_status = "Timeout"
    /\ output.checks_performed \in 2..3

(* ------------------------ claims about the research agent -------------- *)
\* the model answered the last call of an activity, and with what
Answered(call) == call.response # <<>> /\ call.response[1].text # ""
HasShouldContinue(response) ==
    /\ response.json # <<>>
    /\ response.json[1].t = "dict"
    /\ "should_continue" \in DOMAIN response.json[1].v

\* C23: decide_continuation_activity returns False whenever current_iteration
\* >= max_iterations, without consulting the LLM; otherwise it returns the
\* should_continue value of the LLM's JSON answer, and False when that answer
\* cannot be parsed or lacks the field. The loop that goes on only while the
\* activity returns True performs at most max_iterations rounds.
C23_DecideContinuation ==
    /\ decided.result # <<>> =>
          LET activity_input == decided.input[1]
              r == decided.result[1]
          IN IF activity_input.current_iteration >= activity_input.max_iterations
             THEN /\ r.outcome = "return"
                  /\ r.val = PyBool(FALSE)
                  /\ decided.response = <<>>
             ELSE Answered(decided) =>
                  /\ r.outcome = "return"
                  /\ IF HasShouldContinue(decided.response[1])
                     THEN r.val = decided.response[1].json[1].v.should_continue
                     ELSE r.val = PyBool(FALSE)
    /\ research.rounds <= research.max_iterations

ParsedList(call) ==
    /\ Answered(call)
    /\ call.response[1].json # <<>>
    /\ call.response[1].json[1].t = "list"
    /\ call.response[1].json[1].v # <<>>

\* C24 as stated: identify_research_gaps_activity returns the first element of
\* the LLM's answer when the answer parses to a non-empty list, and None in
\* every other case.
C24_FirstElementAsStated ==
    (follow_up.result # <<>> /\ Answered(follow_up)) =>
        LET r == follow_up.result[1]
        IN /\ r.outcome = "return"
           /\ IF ParsedList(follow_up)
              THEN r.val = follow_up.response[1].json[1].v[1]
              ELSE r.val = PyNone

\* C24: identify_research_gaps_activity returns str() of the first element of
\* the LLM's answer when the answer parses to a non-empty list, which is the
\* element itself when it is a string, and None in every other case: an empty
\* list, a parsed value that is not a list, or an answer that fails to parse.
C24_StrOfFirstElement ==
    (follow_up.result # <<>> /\ Answered(follow_up)) =>
        LET r == follow_up.result[1]
        IN /\ r.outcome = "return"
           /\ IF ParsedList(follow_up)
              THEN LET first == follow_up.response[1].json[1].v[1]
                   IN /\ r.val.t = "str"
                      /\ r.val.v = first.v
                      /\ first.t = "str" => r.val = first
              ELSE r.val = PyNone

\* the model answered [3, "neural network pruning"] and the activity
\* returned the string "3"
C24_Witness ==
    /\ ParsedList(follow_up)
    /\ follow_up.response[1].json[1].v[1] = PyInt("3")
    /\ follow_up.result[1].outcome = "return"
    /\ follow_up.result[1].val = PyStr("3")

\* the model answered two queries and the activity returned the first
C24_WitnessStrings ==
    /\ ParsedList(follow_up)
    /\ Len(follow_up.response[1].json[1].v) = 2
    /\ follow_up.result[1].val = PyStr("transformer attention")

\* the model answered a list where an object was asked for
C23_WitnessNotADict ==
    /\ Answered(decided)
    /\ decided.response[1].json # <<>>
    /\ decided.response[1].json[1].t = "list"
    /\ decided.result[1].outcome = "raise"
    /\ decided.result[1].val = PyStr("AttributeError")

\* max_iterations rounds were performed and the activity then said False
\* without asking the model
C23_WitnessBound ==
    /\ research.pc = "done"
    /\ research.max_iterations = MaxIter
    /\ research.rounds = MaxIter
    /\ decided.response = <<>>

\* apart from answers that are not objects, the activity does as C23 says
C23_ExceptNonObjects ==
    /\ decided.result # <<>> =>
          LET activity_input == decided.input[1]
              r == decided.result[1]
          IN IF activity_input.current_iteration >= activity_input.max_iterations
             THEN /\ r.outcome = "return"
                  /\ r.val = PyBool(FALSE)
                  /\ decided.response = <<>>
             ELSE (Answered(decided) /\ (decided.response[1].json # <<>>
                                          => decided.response[1].json[1].t = "dict")) =>
                  /\ r.outcome = "return"
                  /\ IF HasShouldContinue(decided.response[1])
                     THEN r.val = decided.response[1].json[1].v.should_continue
                     ELSE r.val = PyBool(FALSE)
    /\ research.rounds <= research.max_iterations

(* ------------------------ claims about replay passes ------------------- *)
\* the actions a pass requested whose Scheduled event was in history when the
\* pass began, and whose completion was not
OutstandingAt(p) ==
    {i \in DOMAIN p.requested :
        /\ ScheduledAt(p.at, p.requested[i].seq) # {}
        /\ CompletionsOf(p.at, p.requested[i].seq) = {}}

\* the work items handed out for the Scheduled events of the current generation
DispatchedNow ==
    LET k == Len(ScheduledEventsIn(history))
    IN SubSeq(dispatched, Len(dispatched) - k + 1, Len(dispatched))

\* C25: no re-dispatch of an outstanding action. A replay pass that reaches an
\* action whose Scheduled event is in history and whose completion is not
\* suspends, emits no new action, appends no event and leaves the instance
\* Running; every Scheduled event of the generation was handed out exactly once.
C25_NoRedispatchOfOutstanding ==
    /\ [][(queued /\ ~queued' /\ OutstandingAt(lastPass') # {}) =>
            /\ lastPass'.outcome = "suspended"
            /\ lastPass'.new = <<>>
            /\ history' = history
            /\ dispatched' = dispatched
            /\ pending' = pending
            /\ status = "Running" /\ status' = "Running"]_vars
    /\ [](/\ Len(dispatched) >= Len(ScheduledEventsIn(history))
          /\ \A i \in DOMAIN DispatchedNow :
                /\ DispatchedNow[i].seq = ScheduledEventsIn(history)[i].seq
                /\ DispatchedNow[i].name = ScheduledEventsIn(history)[i].name
          /\ \A i, j \in DOMAIN DispatchedNow :
                DispatchedNow[i].seq = DispatchedNow[j].seq => i = j)

\* one of two process_work_item activities completed; the pass it triggered
\* found the other one outstanding and handed nothing out
C25_Witness ==
    /\ orch = FanOut
    /\ status = "Running"
    /\ ~queued
    /\ lastPass.outcome = "suspended"
    /\ OutstandingAt(lastPass) # {}
    /\ Len(lastPass.requested) = 2
    /\ lastPass.new = <<>>
    /\ Cardinality(pending) = 1
    /\ Len(dispatched) = 2
    /\ Len(history) = 4

(* ------------------------ claims about history ------------------------- *)
\* C26: correlation ids are sequence numbers. The Scheduled events of the
\* current generation carry the numbers 0, 1, 2, ... in history order, so they
\* are pairwise distinct, increasing, and each is the next unused number; every
\* completion or failure event carries the number of a Scheduled event that
\* precedes it in history.
C26_CorrelationBySequenceNumber ==
    /\ \A i \in DOMAIN ScheduledEventsIn(history) :
          ScheduledEventsIn(history)[i].seq = i - 1
    /\ \A i, j \in DOMAIN history :
          (/\ i < j
           /\ history[i].type = "ActivityScheduled"
           /\ history[j].type = "ActivityScheduled") => history[i].seq < history[j].seq
    /\ \A j \in DOMAIN history :
          history[j].type \in CompletionTypes =>
              \E i \in 1..(j - 1) :
                  /\ history[i].type = "ActivityScheduled"
                  /\ history[i].seq = history[j].seq

\* a second generation of the eternal orchestrator numbers its activities from
\* 0 again; both have completed
C26_Witness ==
    /\ orch = Eternal
    /\ generation >= 1
    /\ Len(ScheduledEventsIn(history)) = 2
    /\ \E j \in DOMAIN history :
          history[j].type \in CompletionTypes /\ history[j].seq = 1

\* two process_work_item activities of one suspension carry 0 and 1, and the
\* second completed first
C26_WitnessFanOut ==
    /\ orch = FanOut
    /\ Len(history) = 4
    /\ history[2].seq = 0 /\ history[3].seq = 1
    /\ history[4].type = "ActivityCompleted" /\ history[4].seq = 1

\* the event at i is the same in both histories
SameEvent(h1, h2, i) ==
    /\ h1[i].type = h2[i].type
    /\ h1[i].seq = h2[i].seq
    /\ h1[i].name = h2[i].name
    /\ h1[i].ts = h2[i].ts
    /\ h1[i].val = h2[i].val

\* C27: history is append-only. A step within one generation leaves every
\* event of history where and what it was and at most appends; history gets
\* shorter only in the step of a continue-as-new pass, which starts the next
\* generation with a single OrchestrationStarted event.
C27_HistoryAppendOnly ==
    [][IF generation' = generation
       THEN /\ Len(history') >= Len(history)
            /\ \A i \in DOMAIN history : SameEvent(history, history', i)
       ELSE /\ generation' = generation + 1
            /\ lastPass'.outcome = "continue_as_new"
            /\ Len(history') = 1
            /\ history'[1].type = "OrchestrationStarted"]_vars

\* the eternal orchestrator continued as new, and its history has grown
\* again since: its first activity of the new generation was scheduled and completed
C27_Witness ==
    /\ orch = Eternal
    /\ generation = 1
    /\ Len(lastPass.at) = 1
    /\ Len(history) = 3
    /\ history[3].type \in CompletionTypes

(* ------------------------ claims about terminal instances -------------- *)
Terminal == {"Completed", "Failed", "Terminated"}

C28_WitnessFailed ==
    /\ status = "Failed"
    /\ \E id \in DOMAIN workItems :
          /\ workItems[id].received = 2
          /\ \E i \in CompletionsOf(history, id[2]) : history[i].type = "ActivityFailed"

(* ------------------------ claims about a failed fan-out ---------------- *)
Children(h) ==
    {i \in DOMAIN h : h[i].type = "ActivityScheduled" /\ h[i].name = "process_work_item"}
ChildFailed(h) ==
    \E i \in DOMAIN h : h[i].type = "ActivityFailed" /\ h[i].name = "process_work_item"

\* C29: fan-out failure is fail-fast after drain. Once a process_work_item
\* activity of fan_out_fan_in_orchestrator has failed, aggregate_results is
\* never scheduled and the instance does not complete; it stays Running only
\* while a child is outstanding or a pass is due, and ends Failed with the
\* error of a failed child. The pass that fails it runs over a history that
\* holds a completion of every child, so every child's completion is recorded;
\* after it no pass runs again.
C29_FanOutFailsAfterDrain ==
    /\ []((orch = FanOut /\ ChildFailed(history)) =>
            /\ \A i \in DOMAIN history :
                  history[i].type = "ActivityScheduled" => history[i].name = "process_work_item"
            /\ status \in {"Running", "Failed"}
            /\ status = "Running" => (pending # {} \/ queued)
            /\ status = "Failed" =>
                  /\ pending = {}
                  /\ lastPass.outcome = "raise"
                  /\ \A i \in Children(history) :
                        /\ CompletionsOf(lastPass.at, history[i].seq) # {}
                        /\ Cardinality(CompletionsOf(history, history[i].seq)) = 1
                  /\ \E i \in DOMAIN history :
                        /\ history[i].type = "ActivityFailed"
                        /\ output = history[i].val)
    /\ [][(orch = FanOut /\ status = "Failed") =>
             UNCHANGED <<status, output, history, lastPass, queued, dispatched>>]_vars

\* the first of two work items failed while the second was outstanding; the
\* second completed after it, and the instance is Failed
C29_Witness ==
    /\ orch = FanOut
    /\ status = "Failed"
    /\ Cardinality(Children(history)) = 2
    /\ history[4].type = "ActivityFailed" /\ history[4].seq = 0
    /\ history[5].type = "ActivityCompleted" /\ history[5].seq = 1

(* ------------------------ claims about chaining ------------------------ *)
ChainSteps(o) ==
    IF o = Chaining THEN <<"say_hello", "process_greeting", "finalize_response">>
    ELSE <<"validate_order", "process_payment", "ship_order", "send_notification">>
CompletedAt(h, s) ==
    {i \in DOMAIN h : h[i].type = "ActivityCompleted" /\ h[i].seq = s}

\* C30: function chaining is strictly sequential. The activities of
\* function_chaining_orchestrator and of order_processing_orchestration are
\* scheduled in the order of the function's text; the first gets the
\* orchestration's input, every later one is scheduled only after the one
\* before it completed and gets that one's result as its input; at most one
\* activity is outstanding at any time; the output of a Completed instance is
\* the result of the last activity.
C30_ChainingIsSequential ==
    orch \in {Chaining, OrderProcessing} =>
        LET S == ScheduledEventsIn(history)
            steps == ChainSteps(orch)
        IN /\ Cardinality(pending) <= 1
           /\ Len(S) <= Len(steps)
           /\ \A k \in DOMAIN S : S[k].name = steps[k] /\ S[k].seq = k - 1
           /\ S # <<>> => S[1].val = Input
           /\ \A k \in DOMAIN S :
                 k > 1 =>
                     /\ CompletedAt(history, k - 2) # {}
                     /\ Least(CompletedAt(history, k - 2)) < Least(ScheduledAt(history, k - 1))
                     /\ S[k].val = history[Least(CompletedAt(history, k - 2))].val
           /\ status = "Completed" =>
                 /\ Len(S) = Len(steps)
                 /\ CompletedAt(history, Len(steps) - 1) # {}
                 /\ output = history[Least(CompletedAt(history, Len(steps) - 1))].val

\* order_processing_orchestration ran its four steps on Order-12345
C30_Witness ==
    /\ orch = OrderProcessing
    /\ status = "Completed"
    /\ Len(ScheduledEventsIn(history)) = 4
    /\ output = <<"Notified(", "Shipped(", "Paid(", "Validated(", "Order-12345",
                  ")", ")", ")", ")">>

\* function_chaining_orchestrator has its second activity outstanding
C30_WitnessChaining ==
    /\ orch = Chaining
    /\ status = "Running"
    /\ pending = {1}
    /\ Len(history) = 4

(* ------------------------ claims about the version gate ---------------- *)
\* the major release number of the tags that are versions; a tag that is not
\* a version ("beta") is compared as a string and sorts after "3.0.0"
MajorOf(tag) ==
    CASE tag = "1.0.0" -> 1
      [] tag = "1.9" -> 1
      [] tag = "2.0.0" -> 2
      [] tag = "3.0.0" -> 3
      [] tag = "10.0.0" -> 10
      [] tag = "beta" -> 99
      [] OTHER -> 1
GatePath(tag) ==
    <<"say_hello">>
    \o (IF MajorOf(tag) >= 2 THEN <<"say_goodbye">> ELSE <<>>)
    \o (IF MajorOf(tag) >= 3 THEN <<"send_notification">> ELSE <<>>)
CompletedValues(h) ==
    LET Done(e) == e.type = "ActivityCompleted"
        es == SelectSeq(h, Done)
    IN [i \in DOMAIN es |-> es[i].val]

\* C31: the version gate is cumulative. versioned_orchestration schedules
\* say_hello first, then say_goodbye if and only if the instance's version is
\* at least 2.0.0, then send_notification if and only if it is at least 3.0.0;
\* an instance without a version takes the 1.0.0 path; the results list of the
\* output holds the results of the scheduled activities, one each, in order.
C31_VersionGateCumulative ==
    orch = Versioned =>
        LET names == ScheduledNames(history)
            path == GatePath(version)
        IN /\ Len(names) <= Len(path)
           /\ \A i \in DOMAIN names : names[i] = path[i]
           /\ version = None => path = GatePath("1.0.0")
           /\ status = "Completed" =>
                 /\ names = path
                 /\ Len(output.results) = Len(names)
                 /\ output.results = CompletedValues(history)

\* an instance of version 10.0.0 ran all three activities
C31_Witness ==
    /\ orch = Versioned
    /\ version = "10.0.0"
    /\ status = "Completed"
    /\ ScheduledNames(history) = <<"say_hello", "say_goodbye", "send_notification">>
    /\ Len(output.results) = 3

\* an instance without a version ran say_hello only
C31_WitnessNone ==
    /\ orch = Versioned
    /\ version = None
    /\ status = "Completed"
    /\ ScheduledNames(history) = <<"say_hello">>

(* ------------------------ claims about the eternal loop ---------------- *)
\* the work items of an activity that were handed out, over all generations
HandedOutNamed(name) ==
    LET Is(w) == w.name = name IN SelectSeq(dispatched, Is)
ScheduledNow(name) ==
    {i \in DOMAIN history : history[i].type = "ActivityScheduled" /\ history[i].name = name}

\* C32: the eternal orchestration iterates a bounded number of times. Started
\* without current_iteration and with max_iterations = M, generation g runs
\* execute_periodic_task once, with iteration = g + 1 <= M; wait_for_interval
\* is scheduled only after that activity completed and only when g + 1 < M;
\* continue_as_new starts the next generation with the same input except for
\* current_iteration, which is one higher. Under fair scheduling the instance
\* ends, Failed only when an activity failed, and a Completed instance ran
\* execute_periodic_task M times, wait_for_interval M - 1 times, continued as
\* new M - 1 times and reports total_iterations = M.
C32_EternalIteratesMTimes ==
    /\ <>(status # "Running")
    /\ [](status = "Failed" => FailedEvents(history) # {})
    /\ [](LET M == Input.max_iterations
              runs == HandedOutNamed("execute_periodic_task")
              waits == HandedOutNamed("wait_for_interval")
          IN /\ Get(Input, "current_iteration", 1) = generation + 1
             /\ generation + 1 <= M
             /\ Cardinality(ScheduledNow("execute_periodic_task")) <= 1
             /\ Len(runs) = generation + Cardinality(ScheduledNow("execute_periodic_task"))
             /\ \A k \in DOMAIN runs : runs[k].input.iteration = k
             /\ Cardinality(ScheduledNow("wait_for_interval")) <= 1
             /\ Len(waits) = generation + Cardinality(ScheduledNow("wait_for_interval"))
             /\ ScheduledNow("wait_for_interval") # {} =>
                   /\ generation + 1 < M
                   /\ \E i \in CompletedAt(history, 0) :
                         \A j \in ScheduledNow("wait_for_interval") : i < j
             /\ status = "Completed" =>
                   /\ generation = M - 1
                   /\ Len(runs) = M
                   /\ Len(waits) = M - 1
                   /\ output.total_iterations = M)
    /\ [][generation' # generation =>
             LET old == history[1].val.input
                 new == history'[1].val.input
             IN /\ generation' = generation + 1
                /\ DOMAIN new = DOMAIN old \cup {"current_iteration"}
                /\ new.current_iteration = Get(old, "current_iteration", 1) + 1
                /\ \A k \in DOMAIN old \ {"current_iteration"} : new[k] = old[k]]_vars

\* started with max_iterations = 3, the instance completed in its third
\* generation after three runs of execute_periodic_task and two waits
C32_Witness ==
    /\ orch = Eternal
    /\ status = "Completed"
    /\ Input.max_iterations = 3
    /\ generation = 2
    /\ Len(HandedOutNamed("execute_periodic_task")) = 3
    /\ Len(HandedOutNamed("wait_for_interval")) = 2
    /\ output.total_iterations = 3

(* ------------------------ claims about the monitoring loop ------------- *)
\* the completion of the activity scheduled last
LastCompletion == history[Least(CompletedAt(history, Len(ScheduledEventsIn(history)) - 1))]

\* C33: monitoring loop ordering. check_job_status and wait_for_interval
\* alternate, starting with a check; an instance that completed scheduled a
\* check last, so no wait follows the check that ends the loop; the
\* final_status is Completed when that check returned Completed, also when
\* the expiration time had passed by then, and Timeout when it returned
\* something else and the expiration time had passed.
C33_MonitoringLoopOrdering ==
    orch = Monitoring =>
        LET names == ScheduledNames(history)
            expiration_time == history[1].ts + Input.timeout_seconds
        IN /\ \A k \in DOMAIN names :
                 names[k] = (IF k % 2 = 1 THEN "check_job_status" ELSE "wait_for_interval")
           /\ status = "Completed" =>
                 /\ Len(names) % 2 = 1
                 /\ IF LastCompletion.val.status = "Completed"
                    THEN output.final_status = "Completed"
                    ELSE /\ output.final_status = "Timeout"
                         /\ LastCompletion.ts >= expiration_time

\* the fourth check returned Completed one second after the start, when a
\* timeout of one second had passed: the final status is Completed
C33_Witness ==
    /\ orch = Monitoring
    /\ status = "Completed"
    /\ Input.timeout_seconds = 1
    /\ Len(ScheduledNames(history)) = 7
    /\ LastCompletion.val.status = "Completed"
    /\ LastCompletion.ts >= history[1].ts + 1
    /\ output.final_status = "Completed"

(* ----------------------------- C34 and C35 ----------------------------- *)
IndexOf(type, name) ==
    {i \in DOMAIN history : history[i].type = type /\ history[i].name = name}
BookTripAt == IndexOf("ActivityScheduled", "book_trip")
PlanningDone ==
    \A name \in {"get_destinations", "create_itinerary", "get_local_recs"} :
        IndexOf("ActivityCompleted", name) # {}
\* the event the wait of the orchestration takes: the first ApprovalEvent
TakenAt == Least(IndexOf("EventRaised", "ApprovalEvent"))
\* what a payload says: the posted object, or the object a posted string spells
Said(payload) ==
    IF payload.t = "str" /\ json_loads(payload.v) # <<>>
    THEN json_loads(payload.v)[1]
    ELSE payload
SaysApproved(payload) ==
    /\ Said(payload).t = "dict"
    /\ "approved" \in DOMAIN Said(payload).v
    /\ Said(payload).v.approved = PyBool(TRUE)
SaysNotApproved(payload) ==
    /\ Said(payload).t = "dict"
    /\ "approved" \in DOMAIN Said(payload).v
    /\ Said(payload).v.approved = PyBool(FALSE)
HasNoApprovedField(payload) ==
    Said(payload).t = "dict" /\ "approved" \notin DOMAIN Said(payload).v
NotJson(payload) == payload.t = "str" /\ json_loads(payload.v) = <<>>
NotApprovedConfirmation ==
    /\ status = "Completed"
    /\ DOMAIN output = {"Plan", "BookingConfirmation"}
    /\ output.BookingConfirmation[1] = "Travel plan was not approved. Comments: "

\* C34: booking requires approval. book_trip is scheduled only after
\* get_destinations, create_itinerary and get_local_recs completed and an
\* ApprovalEvent was received whose payload has approved = true; when the
\* planning is done and the event taken says not approved, has no approved
\* field or is a string that is not JSON, book_trip is never scheduled and
\* the instance completes with the not-approved confirmation.
C34_BookingRequiresApproval ==
    orch = TravelPlanner =>
        /\ \A b \in BookTripAt :
              /\ \A name \in {"get_destinations", "create_itinerary", "get_local_recs"} :
                    \E i \in IndexOf("ActivityCompleted", name) : i < b
              /\ IndexOf("EventRaised", "ApprovalEvent") # {}
              /\ TakenAt < b
              /\ SaysApproved(history[TakenAt].val)
        /\ (/\ PlanningDone
            /\ IndexOf("EventRaised", "ApprovalEvent") # {}
            /\ \/ SaysNotApproved(history[TakenAt].val)
               \/ HasNoApprovedField(history[TakenAt].val)
               \/ NotJson(history[TakenAt].val))
           => /\ BookTripAt = {}
              /\ PassedOver => NotApprovedConfirmation

\* the same with python's reading of the field: book_trip needs an event
\* whose approved field is truthy
C34_ExceptTruthy ==
    orch = TravelPlanner =>
        /\ \A b \in BookTripAt :
              /\ \A name \in {"get_destinations", "create_itinerary", "get_local_recs"} :
                    \E i \in IndexOf("ActivityCompleted", name) : i < b
              /\ IndexOf("EventRaised", "ApprovalEvent") # {}
              /\ TakenAt < b
              /\ Said(history[TakenAt].val).t = "dict"
              /\ "approved" \in DOMAIN Said(history[TakenAt].val).v
              /\ PyTruthy(Said(history[TakenAt].val).v.approved)
        /\ (/\ PlanningDone
            /\ IndexOf("EventRaised", "ApprovalEvent") # {}
            /\ \/ SaysNotApproved(history[TakenAt].val)
               \/ HasNoApprovedField(history[TakenAt].val)
               \/ NotJson(history[TakenAt].val))
           => /\ BookTripAt = {}
              /\ PassedOver => NotApprovedConfirmation

\* the planning is done, the body {"approved": "false"} was posted and taken,
\* and book_trip is scheduled
C34_BookedOnFalseString ==
    /\ orch = TravelPlanner
    /\ BookTripAt # {}
    /\ history[TakenAt].val = PyDict([approved |-> PyStr("false")])

NoDestinations ==
    \E i \in IndexOf("ActivityCompleted", "get_destinations") :
        history[i].val.recommendations = <<>>
ErrorResult == status = "Completed" /\ DOMAIN output = {"error"}

\* C35: the travel planner never ends Failed through its own steps. When
\* get_destinations returned no recommendations, nothing but get_destinations
\* is ever scheduled and the instance completes with the error result, with
\* or without an ApprovalEvent; when a step failed, nothing is scheduled
\* after the failure and the instance completes with an error result.
C35_PlannerNeverFails ==
    orch = TravelPlanner =>
        /\ status # "Failed"
        /\ NoDestinations =>
              /\ ScheduledNames(history) = <<"get_destinations">>
              /\ PassedOver => (ErrorResult /\ output.error = "No destinations found")
        /\ \A f \in FailedEvents(history) :
              /\ \A i \in DOMAIN history : history[i].type = "ActivityScheduled" => i < f
              /\ PassedOver => (ErrorResult /\ output.error = history[f].val)

\* create_itinerary failed: the instance completed with the error, and
\* get_local_recs was never scheduled
C35_Witness ==
    /\ orch = TravelPlanner
    /\ \E f \in FailedEvents(history) : history[f].name = "create_itinerary"
    /\ ErrorResult
    /\ ScheduledNames(history) = <<"get_destinations", "create_itinerary">>

\* no recommendations: completed with the error result while no event was raised
C35_WitnessNoDestinations ==
    /\ orch = TravelPlanner
    /\ NoDestinations
    /\ ErrorResult
    /\ raised = <<>>

(* --------------------------------- C36 --------------------------------- *)
\* a process_approval scheduled at index i of history is as the claim has
\* it: send_approval_request completed and the approval event arrived
\* before it, and its status is what the payload's approved field says. The
\* wait of the model raises no error (the engine has no timer on it and
\* nothing cancels it), so no scheduling with status error is covered
AsClaimed(i) ==
    /\ \E j \in 1..(i - 1) : history[j].type = "ActivityCompleted" /\ history[j].seq = 0
    /\ \E j \in 1..(i - 1) :
          history[j].type = "EventRaised" /\ history[j].name = "approval_response"
    /\ history[i].val.status # "error"
    /\ history[i].val.status =
          (IF ApprovalEvents[1].val.approved THEN "approved" ELSE "rejected")
    /\ history[i].val.approval_response = ApprovalEvents[1].val
ProcessScheduledAt == IndexOf("ActivityScheduled", "process_approval")

\* C36: approval processing happens once. In every run of
\* human_interaction_orchestrator process_approval is scheduled at most once,
\* never before send_approval_request completed and the event was received,
\* with status approved or rejected after the payload's approved field, and
\* with status error only when the wait raised an error.
C36_ApprovalProcessedOnce ==
    orch = HumanInteraction =>
        /\ Cardinality(ProcessScheduledAt) <= 1
        /\ \A i \in ProcessScheduledAt : AsClaimed(i)

\* the same for the runs in which the first process_approval did not fail
C36_ExceptFailedProcessing ==
    (orch = HumanInteraction /\ IndexOf("ActivityFailed", "process_approval") = {}) =>
        /\ Cardinality(ProcessScheduledAt) <= 1
        /\ \A i \in ProcessScheduledAt : AsClaimed(i)

\* the approval arrived, process_approval was scheduled with status approved
\* and failed, and process_approval is scheduled a second time, with status
\* error and no approval_response
C36_ProcessedTwice ==
    /\ orch = HumanInteraction
    /\ Cardinality(ProcessScheduledAt) = 2
    /\ \E i, j \in ProcessScheduledAt :
          /\ i < j
          /\ history[i].val.status = "approved"
          /\ history[j].val.status = "error"
          /\ history[j].val.approval_response = None

(* --------------------------------- C37 --------------------------------- *)
\* where the call of orchestration id stands in the queue of its key
CallAt(id) ==
    {i \in DOMAIN opQueue[workflow[id].key] : opQueue[workflow[id].key][i].caller = id}
OpAt(k, i) == <<opQueue[k][i].operation, opQueue[k][i].input>>

C37_WitnessNotSuspended ==
    \E id \in WorkflowIds :
        /\ workflow[id].sent = 4
        /\ CallAt(id) = {4}
        /\ lastApplied[workflow[id].key] = 0

(* --------------------------------- C38 --------------------------------- *)
Applying(w) == Committing(w) /\ lastApplied'[running[w].key] # lastApplied[running[w].key]

\* C38: counter operations change only what they name. The operation a
\* commit applies to key k leaves every other key as it is; get returns the
\* state of k (0 for a key never written) and leaves it unchanged; reset makes
\* it 0; add n and subtract n change it by +n and -n; any other operation
\* leaves it unchanged and returns nothing; and the state of a key changes
\* only when an operation of that key is applied.
C38_CounterOperations ==
    /\ [][\A w \in Workers : Applying(w) =>
             LET e == running[w]
                 k == e.key
                 before == get_state(entityState[k], 0)
                 after == get_state(entityState'[k], 0)
                 returned == IF e.op.caller = <<>> THEN lastResult'[1]
                             ELSE workflow'[e.op.caller].result[1]
             IN /\ \A j \in EntityKeys \ {k} : entityState'[j] = entityState[j]
                /\ CASE e.op.operation = "get" ->
                            entityState'[k] = entityState[k] /\ returned = before
                     [] e.op.operation = "reset" ->
                            entityState'[k] = <<0>> /\ returned = None
                     [] e.op.operation = "add" ->
                            after = before + e.op.input /\ returned = None
                     [] e.op.operation = "subtract" ->
                            after = before - e.op.input /\ returned = None
                     [] OTHER ->
                            entityState'[k] = entityState[k] /\ returned = None]_vars
    /\ [][\A k \in EntityKeys : entityState'[k] # entityState[k] =>
             \E w \in Workers : Applying(w) /\ running[w].key = k]_vars

\* add 5 and then reset were applied to a key: its state is 0, and the other
\* keys were never written
C38_Witness ==
    \E k \in ClientKeys :
        /\ lastApplied[k] = 2
        /\ opQueue[k][1].operation = "add"
        /\ opQueue[k][2].operation = "reset"
        /\ entityState[k] = <<0>>
        /\ \A j \in EntityKeys \ {k} : entityState[j] = <<>>

\* an operation the counter does not know was applied after add 5
C38_WitnessUnknown ==
    \E k \in ClientKeys :
        /\ lastApplied[k] = 2
        /\ opQueue[k][1].operation = "add"
        /\ opQueue[k][2].operation = "multiply"
        /\ entityState[k] = <<5>>

\* get was applied to a key never written: it returned 0 and wrote nothing
C38_WitnessGet ==
    \E k \in ClientKeys :
        /\ lastApplied = [j \in EntityKeys |-> IF j = k THEN 1 ELSE 0]
        /\ opQueue[k][1].operation = "get"
        /\ entityState[k] = <<>>
        /\ lastResult = <<0>>

(* --------------------------------- C39 --------------------------------- *)
ClientOutcomes ==
    UNION {{llm.frame[t].outcomes[i] : i \in DOMAIN llm.frame[t].outcomes} : t \in Threads}

\* C39: the LLM client is created at most once per process. At most one
\* OpenAI object is ever constructed, every call of _get_client that returns
\* returns that one object, whatever thread makes the call, and without
\* AZURE_OPENAI_ENDPOINT every call raises and _client stays unset.
C39_ClientCreatedOnce ==
    /\ Len(llm.constructed) <= 1
    /\ \A o \in ClientOutcomes : o.outcome = "return" => o.client = 1
    /\ ~llm.AZURE_OPENAI_ENDPOINT =>
          /\ llm.client = <<>>
          /\ \A o \in ClientOutcomes : o.outcome = "raise"

\* the same when the calls do not overlap: only one thread has called
C39_ExceptConcurrentCalls ==
    (\E t \in Threads : \A u \in Threads \ {t} : llm.frame[u].calls = 0)
        => C39_ClientCreatedOnce

\* without the endpoint every call raises and nothing is constructed
C39_UnsetEndpoint ==
    ~llm.AZURE_OPENAI_ENDPOINT =>
        /\ llm.client = <<>>
        /\ llm.constructed = <<>>
        /\ \A o \in ClientOutcomes : o.outcome = "raise"

\* two threads found _client unset, each constructed a client, and their first
\* calls returned different objects
C39_TwoClients ==
    /\ Len(llm.constructed) = 2
    /\ \A t \in Threads : llm.frame[t].outcomes # <<>>
    /\ llm.frame["thread-1"].outcomes[1].outcome = "return"
    /\ llm.frame["thread-2"].outcomes[1].outcome = "return"
    /\ llm.frame["thread-1"].outcomes[1].client # llm.frame["thread-2"].outcomes[1].client

====
